---- MODULE Spec2Model ----
(***************************************************************************)
(* Model of the movie catalog service (movies.service.ts), its two         *)
(* repositories (movies.repo.ts, userMovies.repo.ts) and the PostgreSQL    *)
(* schema built by the migrations (movies, user_movies, the trigger        *)
(* trg_user_movies_effective_title and the unique index                    *)
(* ux_user_movies_effective_title).                                        *)
(*                                                                         *)
(* Every db.query is one autocommit statement (db/index.ts: pool.query),   *)
(* so a request is a sequence of atomic steps, one per statement, and the  *)
(* steps of two requests interleave freely.  The first statement of a      *)
(* request is issued in the step that accepts the request.                 *)
(*                                                                         *)
(* Titles are sequences of one-character strings.  An optional column      *)
(* (NULL or a value) is a set with at most one element.                    *)
(***************************************************************************)
EXTENDS Integers, Sequences, FiniteSets, TLC

\* ---------------------------------------------------------------- bounds
\* rows the movies table may hold
MaxMovies == 2
\* requests accepted in one behaviour
MaxRequests == 3
\* steps that cut across a request sequence: requests accepted while
\* another is in flight, and cache upserts
MaxInterleaved == 2
\* hours the clock runs
MaxClock == 4
\* searches in flight at one time
MaxSearches == 1
\* characters of a raw title given to the normalizer
MaxLen == 4

\* env.CACHE_TTL_HOURS, a positive number the deployment chooses
CACHE_TTL_HOURS == 2

Procs == {1, 2}
Users == {"u1", "u2"}
OmdbIds == {"tt1"}

T_abc == <<"a", "b", "c">>
T_a7bc == <<"a", "7", "b", "c">>
T_xyz == <<"x", "y", "z">>
Titles == {T_abc, T_a7bc, T_xyz}

\* search queries: a part of a title, a whole title, a single character
SearchQueries == {<<"b", "c">>, T_xyz, <<"A", "B", "C", "D">>, <<"a">>}

\* ------------------------------------------------------------ characters
Lowers == <<"a", "b", "c", "x", "y", "z">>
Uppers == <<"A", "B", "C", "X", "Y", "Z">>
DigitChars == {"0", "1", "7"}

IsLower(c) == \E i \in 1..Len(Lowers) : Lowers[i] = c
IsUpper(c) == \E i \in 1..Len(Uppers) : Uppers[i] = c
IsLetter(c) == IsLower(c) \/ IsUpper(c)
\* JavaScript \w : letters, digits and the underscore
IsWordChar(c) == IsLetter(c) \/ c \in DigitChars \/ c = "_"

toLowerCase(c) ==
  IF IsUpper(c) THEN Lowers[CHOOSE i \in 1..Len(Uppers) : Uppers[i] = c] ELSE c
toUpperCase(c) ==
  IF IsLower(c) THEN Uppers[CHOOSE i \in 1..Len(Lowers) : Lowers[i] = c] ELSE c

\* SQL LOWER() / String.prototype.toLowerCase() on a whole text
LOWER(s) == [i \in 1..Len(s) |-> toLowerCase(s[i])]

\* .trim().replace(/\s+/g, ' ') : drop leading and trailing blanks and keep
\* one blank of every run
RECURSIVE CollapseFrom(_, _, _)
CollapseFrom(s, i, acc) ==
  IF i > Len(s) THEN acc
  ELSE IF s[i] = " " /\ (acc = <<>> \/ acc[Len(acc)] = " ")
       THEN CollapseFrom(s, i + 1, acc)
       ELSE CollapseFrom(s, i + 1, Append(acc, s[i]))

\* a collapse that takes one blank off every run of two or more
DropOneBlankPerRun(s) ==
  LET keep == {i \in DOMAIN s :
                 ~(/\ s[i] = " "
                   /\ (i = 1 \/ s[i - 1] # " ")
                   /\ i < Len(s) /\ s[i + 1] = " ")}
  IN [k \in 1..Cardinality(keep) |->
        s[CHOOSE i \in keep : Cardinality({j \in keep : j <= i}) = k]]

TrimCollapse(s) ==
  LET c == CollapseFrom(s, 1, <<>>)
  IN IF c # <<>> /\ c[Len(c)] = " " THEN SubSeq(c, 1, Len(c) - 1) ELSE c

\* first letter of each word upper case, the rest lower case
CapitalizeWords(s) ==
  [i \in 1..Len(s) |->
     IF i = 1 \/ s[i - 1] = " " THEN toUpperCase(s[i]) ELSE toLowerCase(s[i])]

\* domain/normalize.ts : every character outside [A-Za-z ] becomes a blank
normalizeTitle(rawTitle) ==
  LET blanked == [i \in 1..Len(rawTitle) |->
                    IF IsLetter(rawTitle[i]) \/ rawTitle[i] = " "
                    THEN rawTitle[i] ELSE " "]
  IN CapitalizeWords(TrimCollapse(blanked))

\* SQL normalize_title : '-' and ':' become blanks, every other character
\* outside [A-Za-z ] is removed, then trim, collapse, initcap(lower())
IsLetterOrBlank(c) == IsLetter(c) \/ c = " "

normalize_title(raw_title) ==
  LET separated == [i \in 1..Len(raw_title) |->
                      IF raw_title[i] \in {"-", ":"} THEN " " ELSE raw_title[i]]
      stripped == SelectSeq(separated, IsLetterOrBlank)
  IN CapitalizeWords(TrimCollapse(stripped))

\* userMovies.repo.ts create(): the key the repository passes to the INSERT
repoEffectiveTitle(movieTitle) ==
  LET IsWordOrBlank(c) == IsWordChar(c) \/ c = " "
  IN TrimCollapse(SelectSeq(LOWER(movieTitle), IsWordOrBlank))

\* --------------------------------------------------------------- columns
NULL == {}
Some(v) == {v}
COALESCE(opt, dflt) == IF opt = NULL THEN dflt ELSE CHOOSE v \in opt : TRUE

\* request bodies that pass createMovieSchema: every field but the poster is
\* required
CreateBodies ==
  {[title |-> T_abc, year |-> 1999, runtimeMinutes |-> 90,
    genre |-> <<"Drama">>, director |-> <<"Ann">>, poster |-> Some("p1")],
   [title |-> T_a7bc, year |-> 2024, runtimeMinutes |-> 135,
    genre |-> <<"Action", "Thriller">>, director |-> <<"Bob">>, poster |-> NULL],
   [title |-> T_xyz, year |-> 1999, runtimeMinutes |-> 90,
    genre |-> <<"Drama">>, director |-> <<"Ann">>, poster |-> Some("p2")]}

\* request bodies that pass updateMovieSchema: every field is optional, a
\* poster in the body is dropped by the schema
NoFields ==
  [title |-> NULL, year |-> NULL, runtimeMinutes |-> NULL,
   genre |-> NULL, director |-> NULL]

UpdateBodies ==
  {NoFields,
   [NoFields EXCEPT !.title = Some(T_abc)],
   [NoFields EXCEPT !.title = Some(T_xyz)],
   [title |-> Some(T_a7bc), year |-> Some(2024), runtimeMinutes |-> Some(135),
    genre |-> Some(<<"Action", "Thriller">>), director |-> Some(<<"Bob">>)],
   [NoFields EXCEPT !.year = Some(1999), !.director = Some(<<"Ann">>)]}

\* what convertOMDBToMovie makes of an upstream answer: parseYear,
\* parseRuntime and parseList give null for a field they cannot read
OmdbDetails ==
  {[title |-> T_abc, year |-> Some(1999), runtimeMinutes |-> Some(90),
    genre |-> Some(<<"Drama">>), director |-> Some(<<"Ann">>)],
   [title |-> T_a7bc, year |-> NULL, runtimeMinutes |-> NULL,
    genre |-> NULL, director |-> NULL],
   [title |-> T_xyz, year |-> Some(2024), runtimeMinutes |-> Some(135),
    genre |-> Some(<<"Action", "Thriller">>), director |-> Some(<<"Bob">>)]}

VARIABLES
  movies,       \* table movies: sequence of rows, the id is the index
  user_movies,  \* table user_movies: set of rows
  req,          \* the request each handler slot is serving
  started,      \* number of requests accepted so far
  interleaved,  \* number of requests accepted while another was in flight,
                \* plus the number of cache upserts
  concurrent,   \* the two requests now in the slots were in flight together
  clock         \* Date.now() and the database's now(), in hours

vars == <<movies, user_movies, req, started, interleaved, concurrent, clock>>

Idle ==
  [op |-> "none", pc |-> "idle", userId |-> "none", movieId |-> 0,
   title |-> NULL, year |-> NULL, runtimeMinutes |-> NULL, genre |-> NULL,
   director |-> NULL, poster |-> NULL,
   isFavorite |-> FALSE, movieTitle |-> NULL, result |-> "none",
   omdbId |-> "none", calledAt |-> 0, no |-> 0, fetched |-> 0,
   storeErrors |-> {}, wrote |-> FALSE,
   retryCount |-> 0, errors |-> <<>>, delays |-> <<>>,
   query |-> <<>>, includeCustom |-> FALSE, Search |-> <<>>,
   totalResults |-> <<>>, settled |-> <<>>, omdbItems |-> <<>>,
   omdbTotal |-> 0, items |-> <<>>, total |-> 0,
   normalized |-> NULL, renormalized |-> NULL]

InFlight(p) == req[p].pc \notin {"idle", "done"}

Init ==
  /\ movies = <<>>
  /\ user_movies = {}
  /\ req = [p \in Procs |-> Idle]
  /\ started = 0
  /\ interleaved = 0
  /\ concurrent = FALSE
  /\ clock = 0

\* ------------------------------------------------------------ the store
\* the ids a request may name: those of the movies in the table and one id
\* that no movie ever gets (absent ids are interchangeable)
AbsentId == MaxMovies + 1
KnownIds == DOMAIN movies \cup {AbsentId}

\* SELECT ... WHERE id = $1, the soft-delete flag not looked at
findAnyById(id) == IF id \in DOMAIN movies THEN {id} ELSE {}

\* moviesRepo.findById : SELECT ... WHERE id = $1 AND is_deleted = false
findById(id) ==
  IF id \in DOMAIN movies /\ ~movies[id].is_deleted THEN {id} ELSE {}

\* the rows of a movie, whoever the user
findByMovie(userId, movieId) ==
  {r \in user_movies : r.movieId = movieId}

\* moviesRepo.findByIds : SELECT ... WHERE id = ANY($1) AND is_deleted = false
findByIds(ids) == {id \in ids : id \in DOMAIN movies /\ ~movies[id].is_deleted}

\* title ILIKE '%query%' : the query occurs in the title, case ignored
ILIKE(title, query) ==
  \E i \in 0..(Len(title) - Len(query)) :
    LOWER(SubSeq(title, i + 1, i + Len(query))) = LOWER(query)

\* pg_trgm: the text in lower case, every word (a run of letters and digits)
\* written as two blanks, the word, one blank
RECURSIVE PadWords(_, _)
PadWords(s, i) ==
  IF i > Len(s) THEN <<" ">>
  ELSE LET alnum == IsLetter(s[i]) \/ s[i] \in DigitChars
           first == i = 1 \/ ~(IsLetter(s[i - 1]) \/ s[i - 1] \in DigitChars)
       IN IF ~alnum THEN PadWords(s, i + 1)
          ELSE (IF first THEN (IF i = 1 THEN <<" ", " ">> ELSE <<" ", " ", " ">>)
                ELSE <<>>) \o <<toLowerCase(s[i])>> \o PadWords(s, i + 1)

\* pg_trgm: the trigrams of a text, three characters in a row of a padded word
Trigrams(s) ==
  LET padded == PadWords(s, 1)
      windows == {SubSeq(padded, i, i + 2) : i \in 1..(Len(padded) - 2)}
  IN {w \in windows : ~(w[2] = " " /\ w[3] = " ")}

\* similarity(title, $1) > 0.3 : shared trigrams over all trigrams
SimilarityAboveThreshold(title, query) ==
  LET a == Trigrams(title)
      b == Trigrams(query)
  IN 10 * Cardinality(a \cap b) > 3 * Cardinality(a \cup b)

\* moviesRepo.searchByTitle : the custom movies, not deleted, whose title
\* matches; the LIMIT is above the number of rows the table holds here
searchByTitle(query) ==
  IF Len(query) < 2 THEN {}
  ELSE {id \in DOMAIN movies :
          /\ movies[id].source = "custom"
          /\ movies[id].is_deleted = FALSE
          /\ \/ ILIKE(movies[id].title, query)
             \/ SimilarityAboveThreshold(movies[id].title, query)}

\* moviesService.searchMoviesHybrid with includeCustom: the custom matches
\* and the items omdbService.searchMovies returned (rows of the cache, read
\* by omdb_id) whose title no custom match has
searchMoviesHybrid(query, omdbItems) ==
  searchByTitle(query) \cup
    {o \in omdbItems :
       ~\E c \in searchByTitle(query) :
          LOWER(movies[c].title) = LOWER(movies[o].title)}

\* what omdbService.searchMovies can return: rows read by omdb_id
CachedRows == {id \in DOMAIN movies : movies[id].omdb_id \in OmdbIds}

\* userMoviesRepo.findByUserAndMovie, and the WHERE user_id = $1 AND
\* movie_id = $2 of the statements on user_movies
findByUserAndMovie(userId, movieId) ==
  {r \in user_movies : r.userId = userId /\ r.movieId = movieId}

\* userMoviesRepo.findByUserAndEffectiveTitle : the rows the SELECT matches
findByUserAndEffectiveTitle(userId, effectiveNormalizedTitle) ==
  {r \in user_movies :
     /\ r.userId = userId
     /\ LOWER(r.effective_normalized_title) = LOWER(effectiveNormalizedTitle)}

\* trigger trg_user_movies_effective_title, BEFORE INSERT OR UPDATE
update_effective_normalized_title(row, mv) ==
  [row EXCEPT !.effective_normalized_title =
     normalize_title(COALESCE(row.overridden_title, mv[row.movieId].title))]

\* user_movies.updated_at is only ever compared with the updated_at of the
\* same user's other rows (ORDER BY um.updated_at DESC), so a row keeps its
\* position in the order of the writes to that user's rows, 1 for the
\* oldest.  now() is later than every time stored before.
now(rows, userId) == Cardinality({r \in rows : r.userId = userId}) + 1

\* the table with the positions counted again after a write or a delete
Ordinals(rows) ==
  {[r EXCEPT !.updated_at =
      Cardinality({x \in rows : x.userId = r.userId /\ x.updated_at <= r.updated_at})]
   : r \in rows}

\* primary key pk_user_movies (user_id, movie_id)
pk_user_movies(rows) ==
  \A r1, r2 \in rows :
    (r1.userId = r2.userId /\ r1.movieId = r2.movieId) => r1 = r2

\* unique index ux_user_movies_effective_title
\* on (user_id, lower(effective_normalized_title))
ux_user_movies_effective_title(rows) ==
  \A r1, r2 \in rows :
    (/\ r1.userId = r2.userId
     /\ LOWER(r1.effective_normalized_title) = LOWER(r2.effective_normalized_title))
    => r1.movieId = r2.movieId

Constraints(rows) == pk_user_movies(rows) /\ ux_user_movies_effective_title(rows)

\* INSERT INTO user_movies: the row after the trigger, and whether the
\* table accepts it
InsertRow(userId, movieId, isFavorite) ==
  update_effective_normalized_title(
    [userId |-> userId, movieId |-> movieId, isFavorite |-> isFavorite,
     overridden_title |-> NULL, overridden_year |-> NULL,
     overridden_runtime_minutes |-> NULL, overridden_genre |-> NULL,
     overridden_director |-> NULL,
     effective_normalized_title |-> repoEffectiveTitle(movies[movieId].title),
     updated_at |-> now(user_movies, userId)],
    movies)

\* an INSERT into a user_movies table without its primary key
AcceptedWithoutKey(row) ==
  ux_user_movies_effective_title(user_movies \cup {row})

InsertAccepted(row) ==
  /\ findByUserAndMovie(row.userId, row.movieId) = {}
  /\ Constraints(user_movies \cup {row})

\* UPDATE user_movies ... WHERE user_id AND movie_id: old row, new row
UpdateAccepted(old, new) == Constraints((user_movies \ {old}) \cup {new})

\* ------------------------------------------------------------- requests
\* the service call returns or throws; the slot keeps the request and its
\* outcome until the next request is accepted
Finish(r, result) ==
  [r EXCEPT !.pc = "done", !.movieTitle = NULL, !.result = result]

\* UserMoviesController and errorHandler: the HTTP status of an outcome.
\* Only createUserMovie and updateUserMovie turn the duplicate-title error
\* into 409; every other error reaches errorHandler, which answers 500.
HttpStatus(op, result) ==
  CASE result = "ok" -> IF op = "create" THEN 201 ELSE 200
    [] result = "notfound" -> 404
    [] result = "conflict" -> IF op \in {"create", "update"} THEN 409 ELSE 500
    [] result = "dberror" -> 500
    [] OTHER -> 0

Overlaps(p) == \E q \in Procs \ {p} : InFlight(q)

\* a request is accepted into a free slot (one that is idle or whose
\* response has been sent); slots are interchangeable, the lowest free one
\* is taken; users are interchangeable, the first one to call is u1
Accept(p, userId) ==
  /\ ~InFlight(p)
  /\ \A q \in Procs : q < p => InFlight(q)
  /\ started < MaxRequests
  /\ started = 0 => userId = "u1"
  /\ Overlaps(p) => interleaved < MaxInterleaved
  /\ started' = started + 1
  /\ interleaved' = IF Overlaps(p) THEN interleaved + 1 ELSE interleaved
  /\ concurrent' = Overlaps(p)
  /\ clock' = clock

\* the slots after request r has been accepted into slot p: a response that
\* was sent earlier is forgotten
Admit(p, r) ==
  [q \in Procs |-> IF q = p THEN r ELSE IF InFlight(q) THEN req[q] ELSE Idle]

Step(p, pc) ==
  /\ req[p].pc = pc
  /\ UNCHANGED <<started, interleaved, concurrent, clock>>

\* the movies inserted so far and those a running createCustomMovie is about
\* to insert
MoviesInserted ==
  Len(movies) + Cardinality({q \in Procs : req[q].pc = "create_movie"})

\* movies.service.ts createCustomMovie: the pre-check
CreateCheck(p, userId, data) ==
  /\ Accept(p, userId)
  /\ LET r == [Idle EXCEPT !.op = "create", !.userId = userId,
                           !.title = Some(data.title), !.year = Some(data.year),
                           !.runtimeMinutes = Some(data.runtimeMinutes),
                           !.genre = Some(data.genre),
                           !.director = Some(data.director),
                           !.poster = data.poster]
         existingUserMovie ==
           findByUserAndEffectiveTitle(userId, normalizeTitle(data.title))
     IN IF existingUserMovie # {}
        THEN req' = Admit(p, Finish(r, "conflict"))
        ELSE /\ MoviesInserted < MaxMovies
             /\ req' = Admit(p, [r EXCEPT !.pc = "create_movie"])
  /\ UNCHANGED <<movies, user_movies>>

\* moviesRepo.create
CreateMovie(p) ==
  /\ Step(p, "create_movie")
  /\ LET title == COALESCE(req[p].title, <<>>)
     IN movies' = Append(movies,
          [title |-> title, normalized_title |-> normalizeTitle(title),
           year |-> req[p].year, runtime_minutes |-> req[p].runtimeMinutes,
           genre |-> req[p].genre, director |-> req[p].director,
           poster |-> req[p].poster,
           source |-> "custom", created_by_user_id |-> req[p].userId,
           omdb_id |-> "none", is_deleted |-> FALSE, updated_at |-> clock])
  /\ req' = [req EXCEPT ![p].pc = "create_link", ![p].movieId = Len(movies) + 1]
  /\ UNCHANGED user_movies

\* userMoviesRepo.create, reached from createCustomMovie
CreateLink(p) ==
  /\ Step(p, "create_link")
  /\ LET row == InsertRow(req[p].userId, req[p].movieId, FALSE)
     IN IF InsertAccepted(row)
        THEN /\ user_movies' = Ordinals(user_movies \cup {row})
             /\ req' = [req EXCEPT ![p] = Finish(req[p], "ok")]
        ELSE /\ user_movies' = user_movies
             /\ req' = [req EXCEPT ![p] = Finish(req[p], "dberror")]
  /\ UNCHANGED movies

\* the second value wherever it is not null
SecondNonNull(a, b) == IF b # NULL THEN b ELSE a

\* SQL COALESCE of two nullable values
FirstNonNull(a, b) == IF a # NULL THEN a ELSE b

\* userMoviesRepo.getUserMovies: the SELECT list and the mapping of one row
\* of user_movies um JOIN movies m
MergedRow(um, m) ==
  [id |-> um.movieId,
   title |-> COALESCE(um.overridden_title, m.title),
   year |-> FirstNonNull(um.overridden_year, m.year),
   runtimeMinutes |-> FirstNonNull(um.overridden_runtime_minutes, m.runtime_minutes),
   genre |-> FirstNonNull(um.overridden_genre, m.genre),
   director |-> FirstNonNull(um.overridden_director, m.director),
   poster |-> m.poster,
   isFavorite |-> um.isFavorite,
   overrides |-> [title |-> um.overridden_title,
                  year |-> um.overridden_year,
                  runtimeMinutes |-> um.overridden_runtime_minutes,
                  genre |-> um.overridden_genre,
                  director |-> um.overridden_director],
   source |-> m.source]

\* ORDER BY um.updated_at DESC
OrderByUpdatedAtDesc(rows) ==
  CHOOSE seq \in [1..Cardinality(rows) -> rows] :
    \A i, j \in DOMAIN seq : i < j => seq[i].updated_at > seq[j].updated_at

\* userMoviesRepo.getUserMovies: FROM user_movies um JOIN movies m ON
\* um.movie_id = m.id AND m.is_deleted = false WHERE um.user_id = $1
\* [AND um.is_favorite = true] ORDER BY um.updated_at DESC
getUserMovies(userId, favoritesOnly) ==
  LET joined == {um \in user_movies :
                   /\ um.movieId \in DOMAIN movies
                   /\ movies[um.movieId].is_deleted = FALSE
                   /\ um.userId = userId
                   /\ favoritesOnly => um.isFavorite = TRUE}
      ordered == OrderByUpdatedAtDesc(joined)
  IN [i \in DOMAIN ordered |-> MergedRow(ordered[i], movies[ordered[i].movieId])]

\* moviesService.getMovieById = moviesRepo.findById: the row, or null
getMovieById(movieId) ==
  IF findById(movieId) = {} THEN NULL ELSE Some(movies[movieId])

\* a branching that takes every custom movie for the caller's own
AnyCustomMovie(movie, userId) == movie.source = "custom"

\* movie.source === 'custom' && movie.createdByUserId === userId, the test
\* updateMovie and deleteMovie branch on
OwnCustomMovie(movie, userId) ==
  /\ movie.source = "custom"
  /\ movie.created_by_user_id = userId

\* movies.service.ts updateMovie: findById and the owner / override branching
UpdateFind(p, userId, movieId, data) ==
  /\ Accept(p, userId)
  /\ LET title == data.title
         r == [Idle EXCEPT !.op = "update", !.userId = userId,
                           !.movieId = movieId, !.title = data.title,
                           !.year = data.year,
                           !.runtimeMinutes = data.runtimeMinutes,
                           !.genre = data.genre, !.director = data.director]
     IN req' = Admit(p,
          IF findById(movieId) = {}
          THEN Finish(r, "notfound")
          ELSE IF OwnCustomMovie(movies[movieId], userId)
               THEN [r EXCEPT
                       !.pc = IF title # NULL THEN "upd_owner_check"
                                              ELSE "upd_owner_write"]
               ELSE [r EXCEPT
                       !.pc = IF title # NULL THEN "upd_ovr_check"
                                              ELSE "upd_ovr_write"])
  /\ UNCHANGED <<movies, user_movies>>

\* the uniqueness pre-check of either branch of updateMovie
UpdateCheck(p, pc, next) ==
  /\ Step(p, pc)
  /\ LET existingUserMovie ==
           findByUserAndEffectiveTitle(req[p].userId,
                                       normalizeTitle(COALESCE(req[p].title, <<>>)))
     IN \/ /\ \E e \in existingUserMovie : e.movieId # req[p].movieId
           /\ req' = [req EXCEPT ![p] = Finish(req[p], "conflict")]
        \/ /\ \/ existingUserMovie = {}
              \/ \E e \in existingUserMovie : e.movieId = req[p].movieId
           /\ req' = [req EXCEPT ![p].pc = next]
  /\ UNCHANGED <<movies, user_movies>>

UpdateOwnerCheck(p) == UpdateCheck(p, "upd_owner_check", "upd_owner_write")

UpdateOverrideCheck(p) == UpdateCheck(p, "upd_ovr_check", "upd_ovr_write")

\* the validated body has no field to set
NothingToSet(r) ==
  /\ r.title = NULL /\ r.year = NULL /\ r.runtimeMinutes = NULL
  /\ r.genre = NULL /\ r.director = NULL

\* a column after SET col = $n, which is there only for a field of the body
SetIfGiven(field, column) == IF field = NULL THEN column ELSE field

\* an UPDATE movies that has the poster in its SET list
UpdatedMovieAndPoster(old, r) ==
  [old EXCEPT
     !.title = COALESCE(r.title, @),
     !.normalized_title =
        IF r.title = NULL THEN @ ELSE normalizeTitle(COALESCE(r.title, <<>>)),
     !.year = SetIfGiven(r.year, @),
     !.runtime_minutes = SetIfGiven(r.runtimeMinutes, @),
     !.genre = SetIfGiven(r.genre, @),
     !.director = SetIfGiven(r.director, @),
     !.poster = r.poster,
     !.updated_at = clock]

\* the row after UPDATE movies SET the fields of the body; the poster is
\* never in the SET list, updated_at = now() always is
UpdatedMovie(old, r) ==
  [old EXCEPT
     !.title = COALESCE(r.title, @),
     !.normalized_title =
        IF r.title = NULL THEN @ ELSE normalizeTitle(COALESCE(r.title, <<>>)),
     !.year = SetIfGiven(r.year, @),
     !.runtime_minutes = SetIfGiven(r.runtimeMinutes, @),
     !.genre = SetIfGiven(r.genre, @),
     !.director = SetIfGiven(r.director, @),
     !.updated_at = clock]

\* moviesRepo.update: UPDATE movies SET the fields of the body WHERE id AND
\* source = 'custom' AND created_by_user_id; with nothing to set it is
\* findById
UpdateOwnerWrite(p) ==
  /\ Step(p, "upd_owner_write")
  /\ LET id == req[p].movieId
         r == req[p]
     IN IF NothingToSet(r)
        THEN /\ movies' = movies
             /\ req' = [req EXCEPT ![p] =
                  IF findById(id) = {} THEN Finish(req[p], "notfound")
                  ELSE [req[p] EXCEPT !.pc = "upd_reload"]]
        ELSE /\ movies' = [movies EXCEPT ![id] = UpdatedMovie(@, r)]
             /\ req' = [req EXCEPT ![p].pc = "upd_reload"]
  /\ UNCHANGED user_movies

\* the row after UPDATE user_movies SET overridden_x = $n for the fields of
\* the body, updated_at = now(), and the trigger; the poster has no override
Overridden(old, r) ==
  update_effective_normalized_title(
    [old EXCEPT
       !.overridden_title = SetIfGiven(r.title, @),
       !.overridden_year = SetIfGiven(r.year, @),
       !.overridden_runtime_minutes = SetIfGiven(r.runtimeMinutes, @),
       !.overridden_genre = SetIfGiven(r.genre, @),
       !.overridden_director = SetIfGiven(r.director, @),
       !.updated_at = now(user_movies, old.userId)],
    movies)

\* userMoviesRepo.updateOverrides: UPDATE user_movies SET the overrides; with
\* nothing to set it is findByUserAndMovie; no row matched is not an error
\* for the service
UpdateOverrideWrite(p) ==
  /\ Step(p, "upd_ovr_write")
  /\ LET rows == findByUserAndMovie(req[p].userId, req[p].movieId)
     IN IF NothingToSet(req[p]) \/ rows = {}
        THEN /\ user_movies' = user_movies
             /\ req' = [req EXCEPT ![p].pc = "upd_reload"]
        ELSE LET old == CHOOSE r \in rows : TRUE
                 new == Overridden(old, req[p])
             IN IF UpdateAccepted(old, new)
                THEN /\ user_movies' = Ordinals((user_movies \ {old}) \cup {new})
                     /\ req' = [req EXCEPT ![p].pc = "upd_reload"]
                ELSE /\ user_movies' = user_movies
                     /\ req' = [req EXCEPT ![p] = Finish(req[p], "dberror")]
  /\ UNCHANGED movies

\* UserMoviesController.updateUserMovie: the merged view is read back from
\* getUserMovies; a movie that is not in the list is answered 404
UpdateReload(p) ==
  /\ Step(p, "upd_reload")
  /\ req' = [req EXCEPT ![p] =
       IF \E i \in DOMAIN getUserMovies(req[p].userId, FALSE) :
            getUserMovies(req[p].userId, FALSE)[i].id = req[p].movieId
       THEN Finish(req[p], "ok")
       ELSE Finish(req[p], "notfound")]
  /\ UNCHANGED <<movies, user_movies>>

\* movies.service.ts setFavorite: findByUserAndMovie
SetFavoriteFindLink(p, userId, movieId, isFavorite) ==
  /\ Accept(p, userId)
  /\ LET r == [Idle EXCEPT !.op = "favorite", !.userId = userId,
                           !.movieId = movieId, !.isFavorite = isFavorite]
     IN req' = Admit(p,
          [r EXCEPT !.pc = IF findByUserAndMovie(userId, movieId) # {}
                           THEN "sf_update" ELSE "sf_find_movie"])
  /\ UNCHANGED <<movies, user_movies>>

\* an UPDATE user_movies SET is_favorite = $3 that leaves updated_at alone
FavoritedUntimed(old, isFavorite) ==
  update_effective_normalized_title([old EXCEPT !.isFavorite = isFavorite], movies)

\* the row after UPDATE user_movies SET is_favorite = $3, updated_at = now()
\* and the trigger
Favorited(old, isFavorite) ==
  update_effective_normalized_title(
    [old EXCEPT !.isFavorite = isFavorite,
                !.updated_at = now(user_movies, old.userId)],
    movies)

\* userMoviesRepo.setFavorite: UPDATE user_movies SET is_favorite
SetFavoriteUpdate(p) ==
  /\ Step(p, "sf_update")
  /\ LET rows == findByUserAndMovie(req[p].userId, req[p].movieId)
     IN IF rows = {}
        THEN /\ user_movies' = user_movies
             /\ req' = [req EXCEPT ![p] = Finish(req[p], "notfound")]
        ELSE LET old == CHOOSE r \in rows : TRUE
                 new == Favorited(old, req[p].isFavorite)
             IN IF UpdateAccepted(old, new)
                THEN /\ user_movies' = Ordinals((user_movies \ {old}) \cup {new})
                     /\ req' = [req EXCEPT ![p] = Finish(req[p], "ok")]
                ELSE /\ user_movies' = user_movies
                     /\ req' = [req EXCEPT ![p] = Finish(req[p], "dberror")]
  /\ UNCHANGED movies

\* setFavorite, no relationship yet: moviesRepo.findById
SetFavoriteFindMovie(p) ==
  /\ Step(p, "sf_find_movie")
  /\ req' = [req EXCEPT ![p] =
       IF findById(req[p].movieId) = {}
       THEN Finish(req[p], "notfound")
       ELSE [req[p] EXCEPT !.pc = "sf_check",
                           !.movieTitle = Some(movies[req[p].movieId].title)]]
  /\ UNCHANGED <<movies, user_movies>>

\* setFavorite: the pre-check on the movie's title; the controller passes the
\* error to errorHandler, which answers 500
SetFavoriteCheck(p) ==
  /\ Step(p, "sf_check")
  /\ LET existingUserMovie ==
           findByUserAndEffectiveTitle(req[p].userId,
                                       normalizeTitle(COALESCE(req[p].movieTitle, <<>>)))
     IN req' = [req EXCEPT ![p] =
          IF existingUserMovie # {}
          THEN Finish(req[p], "conflict")
          ELSE [req[p] EXCEPT !.pc = "sf_insert"]]
  /\ UNCHANGED <<movies, user_movies>>

\* userMoviesRepo.create, reached from setFavorite
SetFavoriteInsert(p) ==
  /\ Step(p, "sf_insert")
  /\ LET row == InsertRow(req[p].userId, req[p].movieId, req[p].isFavorite)
     IN IF InsertAccepted(row)
        THEN /\ user_movies' = Ordinals(user_movies \cup {row})
             /\ req' = [req EXCEPT ![p] = Finish(req[p], "ok")]
        ELSE /\ user_movies' = user_movies
             /\ req' = [req EXCEPT ![p] = Finish(req[p], "dberror")]
  /\ UNCHANGED movies

\* movies.service.ts deleteMovie: findById and the branching
DeleteFind(p, userId, movieId) ==
  /\ Accept(p, userId)
  /\ LET r == [Idle EXCEPT !.op = "delete", !.userId = userId, !.movieId = movieId]
     IN req' = Admit(p,
          IF findById(movieId) = {}
          THEN Finish(r, "notfound")
          ELSE IF OwnCustomMovie(movies[movieId], userId)
               THEN [r EXCEPT !.pc = "del_movie"]
               ELSE [r EXCEPT !.pc = "del_link"])
  /\ UNCHANGED <<movies, user_movies>>

\* moviesRepo.delete: UPDATE movies SET is_deleted = true WHERE ... AND
\* is_deleted = false
DeleteMovie(p) ==
  /\ Step(p, "del_movie")
  /\ LET id == req[p].movieId
     IN IF movies[id].is_deleted
        THEN /\ movies' = movies
             /\ req' = [req EXCEPT ![p] = Finish(req[p], "notfound")]
        ELSE /\ movies' = [movies EXCEPT ![id].is_deleted = TRUE]
             /\ req' = [req EXCEPT ![p] = Finish(req[p], "ok")]
  /\ UNCHANGED user_movies

\* a DELETE that keeps the row and only takes the favorite flag off
Unfavorited(p) ==
  /\ Step(p, "del_link")
  /\ LET rows == findByUserAndMovie(req[p].userId, req[p].movieId)
     IN /\ user_movies' = {IF r \in rows THEN [r EXCEPT !.isFavorite = FALSE]
                                          ELSE r : r \in user_movies}
        /\ req' = [req EXCEPT ![p] =
             IF rows # {} THEN Finish(req[p], "ok")
                          ELSE Finish(req[p], "notfound")]
  /\ UNCHANGED movies

\* a DELETE FROM user_movies WHERE movie_id = $2, for every user
DeleteLinkOfEveryUser(p) ==
  /\ Step(p, "del_link")
  /\ LET rows == {r \in user_movies : r.movieId = req[p].movieId}
     IN /\ user_movies' = Ordinals(user_movies \ rows)
        /\ req' = [req EXCEPT ![p] =
             IF rows # {} THEN Finish(req[p], "ok")
                          ELSE Finish(req[p], "notfound")]
  /\ UNCHANGED movies

\* userMoviesRepo.delete: DELETE FROM user_movies WHERE user_id AND movie_id
DeleteLink(p) ==
  /\ Step(p, "del_link")
  /\ LET rows == findByUserAndMovie(req[p].userId, req[p].movieId)
     IN /\ user_movies' = Ordinals(user_movies \ rows)
        /\ req' = [req EXCEPT ![p] =
             IF rows # {} THEN Finish(req[p], "ok")
                          ELSE Finish(req[p], "notfound")]
  /\ UNCHANGED movies

\* an upsert without its ON CONFLICT clause and without the unique index on
\* omdb_id: every write adds a row
InsertedAgain(omdbId, movieData) ==
  Append(movies,
    [title |-> movieData.title,
     normalized_title |-> normalizeTitle(movieData.title),
     year |-> movieData.year, runtime_minutes |-> movieData.runtimeMinutes,
     genre |-> movieData.genre, director |-> movieData.director,
     poster |-> NULL, source |-> "omdb", created_by_user_id |-> "none",
     omdb_id |-> omdbId, is_deleted |-> FALSE, updated_at |-> clock])

\* the movies table after INSERT INTO movies ... ON CONFLICT (omdb_id) DO
\* UPDATE SET title, normalized_title, year, runtime_minutes, genre, director,
\* updated_at = now(): the statement of moviesRepo.upsertFromOmdb and of
\* omdbService.cacheMovie
Upserted(omdbId, movieData) ==
  LET cached == {i \in DOMAIN movies : movies[i].omdb_id = omdbId}
      title == movieData.title
  IN IF cached = {}
     THEN Append(movies,
            [title |-> title, normalized_title |-> normalizeTitle(title),
             year |-> movieData.year,
             runtime_minutes |-> movieData.runtimeMinutes,
             genre |-> movieData.genre, director |-> movieData.director,
             poster |-> NULL,
             source |-> "omdb", created_by_user_id |-> "none",
             omdb_id |-> omdbId, is_deleted |-> FALSE, updated_at |-> clock])
     ELSE LET id == CHOOSE i \in cached : TRUE
          IN [movies EXCEPT
                ![id].title = title,
                ![id].normalized_title = normalizeTitle(title),
                ![id].year = movieData.year,
                ![id].runtime_minutes = movieData.runtimeMinutes,
                ![id].genre = movieData.genre,
                ![id].director = movieData.director,
                ![id].updated_at = clock]

\* a cache refresh seen from the requests of the users: its one write
UpsertFromOmdb(omdbId, movieData) ==
  /\ interleaved < MaxInterleaved
  /\ interleaved' = interleaved + 1
  /\ (\A i \in DOMAIN movies : movies[i].omdb_id # omdbId)
       => MoviesInserted < MaxMovies
  /\ movies' = Upserted(omdbId, movieData)
  /\ UNCHANGED <<user_movies, req, started, concurrent, clock>>

Next ==
  \/ \E p \in Procs, u \in Users, b \in CreateBodies : CreateCheck(p, u, b)
  \/ \E p \in Procs : CreateMovie(p)
  \/ \E p \in Procs : CreateLink(p)
  \/ \E p \in Procs, u \in Users, m \in KnownIds, b \in UpdateBodies :
       UpdateFind(p, u, m, b)
  \/ \E p \in Procs : UpdateOwnerCheck(p)
  \/ \E p \in Procs : UpdateOwnerWrite(p)
  \/ \E p \in Procs : UpdateOverrideCheck(p)
  \/ \E p \in Procs : UpdateOverrideWrite(p)
  \/ \E p \in Procs : UpdateReload(p)
  \/ \E p \in Procs, u \in Users, m \in KnownIds, f \in BOOLEAN :
       SetFavoriteFindLink(p, u, m, f)
  \/ \E p \in Procs : SetFavoriteUpdate(p)
  \/ \E p \in Procs : SetFavoriteFindMovie(p)
  \/ \E p \in Procs : SetFavoriteCheck(p)
  \/ \E p \in Procs : SetFavoriteInsert(p)
  \/ \E p \in Procs, u \in Users, m \in KnownIds : DeleteFind(p, u, m)
  \/ \E p \in Procs : DeleteMovie(p)
  \/ \E p \in Procs : DeleteLink(p)
  \/ \E o \in OmdbIds, d \in OmdbDetails : UpsertFromOmdb(o, d)

Spec == Init /\ [][Next]_vars

\* ------------------------------------------------------- the OMDb cache
\* omdbService.getCachedMovie : SELECT * FROM movies WHERE omdb_id = $1
getCachedMovie(omdbId) == {id \in DOMAIN movies : movies[id].omdb_id = omdbId}

\* a cache that calls a record fresh up to and including the TTL
isCacheFreshInclusive(updatedAt) == clock - updatedAt <= CACHE_TTL_HOURS

\* omdbService.isCacheFresh : Date.now() - updatedAt.getTime() < ttlMs
isCacheFresh(updatedAt) == clock - updatedAt < CACHE_TTL_HOURS

\* a call of getMovieDetailsAndCache is taken into a free slot, of two free
\* slots the one with the older record; the record of a finished call stays
\* in its slot until then
CallAccept(p) ==
  /\ ~InFlight(p)
  /\ \A q \in Procs \ {p} :
       ~InFlight(q) => \/ req[p].no < req[q].no
                       \/ req[p].no = req[q].no /\ p < q
  /\ started < MaxRequests
  /\ started' = started + 1
  /\ concurrent' = Overlaps(p)
  /\ UNCHANGED <<interleaved, clock>>

\* one step of a call in flight
CallStep(p, pc) ==
  /\ req[p].op = "refresh"
  /\ req[p].pc = pc
  /\ UNCHANGED <<user_movies, started, interleaved, concurrent, clock>>

\* omdbService.getMovieDetailsAndCache: the cached record is read and, when
\* it is there and fresh, returned
getMovieDetailsAndCache(p, imdbId) ==
  /\ CallAccept(p)
  /\ LET r == [Idle EXCEPT !.op = "refresh", !.omdbId = imdbId,
                           !.calledAt = clock, !.no = started + 1]
         cachedMovie == getCachedMovie(imdbId)
         id == CHOOSE i \in cachedMovie : TRUE
     IN req' = [req EXCEPT ![p] =
          IF cachedMovie # {} /\ isCacheFresh(movies[id].updated_at)
          THEN [Finish(r, "cached") EXCEPT !.movieId = id]
          ELSE [r EXCEPT !.pc = "fetch"]]
  /\ UNCHANGED <<movies, user_movies>>

\* getMovieDetailsAndCache: the upstream detail call answers with the
\* details of the movie, which convertOMDBToMovie converts
FetchDetails(p, movieData) ==
  /\ CallStep(p, "fetch")
  /\ req' = [req EXCEPT ![p].pc = "cache",
                        ![p].fetched = @ + 1,
                        ![p].title = Some(movieData.title),
                        ![p].year = movieData.year,
                        ![p].runtimeMinutes = movieData.runtimeMinutes,
                        ![p].genre = movieData.genre,
                        ![p].director = movieData.director]
  /\ UNCHANGED movies

\* getMovieDetailsAndCache, catch (error): the error is logged and null is
\* returned; the result keeps the name of the error
Caught(error) == error

\* a cache that drops the record of an id whose refresh failed
Evicted(omdbId) == SelectSeq(movies, LAMBDA m : m.omdb_id # omdbId)

\* the movies table after a getMovieDetailsAndCache whose upstream call
\* answered Response 'False' or threw: neither path has a statement
StoreAfterFailedFetch(omdbId) == movies

\* getMovieDetailsAndCache: the upstream detail call answers Response
\* 'False', or fails after its retries; the call returns null
FetchFails(p, outcome) ==
  /\ CallStep(p, "fetch")
  /\ req' = [req EXCEPT ![p] =
       [Finish(req[p], IF outcome = "not found" THEN outcome ELSE Caught(outcome))
          EXCEPT !.fetched = @ + 1]]
  /\ movies' = StoreAfterFailedFetch(req[p].omdbId)

\* omdbService.cacheMovie: the upsert
cacheMovie(p) ==
  /\ CallStep(p, "cache")
  /\ movies' = Upserted(req[p].omdbId,
                        [title |-> COALESCE(req[p].title, <<>>), year |-> req[p].year,
                         runtimeMinutes |-> req[p].runtimeMinutes,
                         genre |-> req[p].genre, director |-> req[p].director])
  /\ req' = [req EXCEPT ![p].pc = "reread", ![p].wrote = TRUE]

\* getMovieDetailsAndCache, return this.getCachedMovie(imdbId): the row of
\* the id is read after cacheMovie and returned, null when there is none
ReturnCached(p) ==
  /\ CallStep(p, "reread")
  /\ LET rows == getCachedMovie(req[p].omdbId)
     IN req' = [req EXCEPT ![p] =
          IF rows = {}
          THEN Finish(req[p], "no record")
          ELSE [Finish(req[p], "refreshed") EXCEPT
                  !.movieId = CHOOSE i \in rows : TRUE]]
  /\ UNCHANGED movies

\* an hour passes
Tick ==
  /\ clock < MaxClock
  /\ clock' = clock + 1
  /\ UNCHANGED <<movies, user_movies, req, started, interleaved, concurrent>>

NextCache ==
  \/ \E p \in Procs, o \in OmdbIds : getMovieDetailsAndCache(p, o)
  \/ \E p \in Procs, d \in OmdbDetails : FetchDetails(p, d)
  \/ \E p \in Procs, e \in {"not found", "failed"} : FetchFails(p, e)
  \/ \E p \in Procs : cacheMovie(p)
  \/ \E p \in Procs : ReturnCached(p)
  \/ Tick

\* the cache on its own: calls of getMovieDetailsAndCache while time passes
SpecCache == Init /\ [][NextCache]_vars

\* ------------------------------------- the OMDb cache on a failing store
\* getMovieDetailsAndCache when the SELECT of its first getCachedMovie
\* throws: getCachedMovie logs the error and returns null, and the call goes
\* on to the upstream call as if there were no record
ReadFails(p, imdbId) ==
  /\ CallAccept(p)
  /\ req' = [req EXCEPT ![p] =
       [Idle EXCEPT !.op = "refresh", !.omdbId = imdbId, !.calledAt = clock,
                    !.no = started + 1, !.pc = "fetch",
                    !.storeErrors = {"read"}]]
  /\ UNCHANGED <<movies, user_movies>>

\* omdbService.cacheMovie when its statement throws: the error is logged,
\* nothing is written and the call goes on
cacheMovieFails(p) ==
  /\ CallStep(p, "cache")
  /\ req' = [req EXCEPT ![p].pc = "reread",
                        ![p].storeErrors = @ \cup {"write"}]
  /\ UNCHANGED movies

\* getMovieDetailsAndCache when the SELECT of its last getCachedMovie
\* throws: getCachedMovie returns null, and so does the call
RereadFails(p) ==
  /\ CallStep(p, "reread")
  /\ req' = [req EXCEPT ![p] =
       [Finish(req[p], "no record") EXCEPT
          !.storeErrors = @ \cup {"reread"}]]
  /\ UNCHANGED movies

NextStoreFaults ==
  \/ \E p \in Procs, o \in OmdbIds : getMovieDetailsAndCache(p, o)
  \/ \E p \in Procs, o \in OmdbIds : ReadFails(p, o)
  \/ \E p \in Procs, d \in OmdbDetails : FetchDetails(p, d)
  \/ \E p \in Procs, e \in {"not found", "failed"} : FetchFails(p, e)
  \/ \E p \in Procs : cacheMovie(p)
  \/ \E p \in Procs : cacheMovieFails(p)
  \/ \E p \in Procs : ReturnCached(p)
  \/ \E p \in Procs : RereadFails(p)
  \/ Tick

\* calls of getMovieDetailsAndCache while time passes and any statement
\* sent to the store may throw
SpecStoreFaults == Init /\ [][NextStoreFaults]_vars

\* ------------------------------------------------------ fetchWithRetry
\* OMDBService.maxRetries
maxRetries == 2

\* what makes an attempt throw inside the try block: the abort after
\* this.timeout ms, a rejected fetch, a status that is not ok, a body that
\* is not JSON
FetchErrors == {"aborted", "network", "http", "json"}

\* a fetchWithRetry that retries once more
RetryAllowedInclusive(retryCount) == retryCount <= maxRetries

\* fetchWithRetry, catch: if (retryCount < this.maxRetries)
RetryAllowed(retryCount) == retryCount < maxRetries

\* fetchWithRetry, catch: Math.pow(2, retryCount) * 1000
BackoffDelay(retryCount) == (2 ^ retryCount) * 1000

\* one step of a fetchWithRetry in flight
RetryStep(p, pc) ==
  /\ req[p].op = "fetch"
  /\ req[p].pc = pc
  /\ UNCHANGED <<movies, user_movies, started, interleaved, concurrent, clock>>

\* fetchWithRetry(url) is called, retryCount = 0, and sends its request
fetchWithRetry(p, imdbId) ==
  /\ CallAccept(p)
  /\ req' = [req EXCEPT ![p] =
       [Idle EXCEPT !.op = "fetch", !.pc = "attempt", !.omdbId = imdbId,
                    !.no = started + 1]]
  /\ UNCHANGED <<movies, user_movies>>

\* the attempt gets an ok response whose body parses: it is returned
AttemptResponds(p, response) ==
  /\ RetryStep(p, "attempt")
  /\ req' = [req EXCEPT ![p] = Finish(req[p], response)]

\* the attempt throws: while retries are left the call waits for the
\* backoff delay, otherwise it throws the error on
AttemptFails(p, error) ==
  /\ RetryStep(p, "attempt")
  /\ req' = [req EXCEPT ![p] =
       IF RetryAllowed(req[p].retryCount)
       THEN [req[p] EXCEPT !.pc = "backoff",
                           !.errors = Append(@, error),
                           !.delays = Append(@, BackoffDelay(req[p].retryCount))]
       ELSE [Finish(req[p], error) EXCEPT !.errors = Append(@, error)]]

\* the backoff timer fires: fetchWithRetry(url, retryCount + 1)
BackoffElapsed(p) ==
  /\ RetryStep(p, "backoff")
  /\ req' = [req EXCEPT ![p].pc = "attempt", ![p].retryCount = @ + 1]

NextRetry ==
  \/ \E p \in Procs, o \in OmdbIds : fetchWithRetry(p, o)
  \/ \E p \in Procs, r \in {"True", "False"} : AttemptResponds(p, r)
  \/ \E p \in Procs, e \in FetchErrors : AttemptFails(p, e)
  \/ \E p \in Procs : BackoffElapsed(p)

\* calls of fetchWithRetry
SpecRetry == Init /\ [][NextRetry]_vars

\* the attempt of slot p ends, one way or the other
AttemptEnds(p) ==
  \/ \E r \in {"True", "False"} : AttemptResponds(p, r)
  \/ \E e \in FetchErrors : AttemptFails(p, e)

\* calls of fetchWithRetry when every request sent is answered, fails or is
\* aborted by the timer, and every backoff timer fires
SpecRetryFair ==
  /\ SpecRetry
  /\ \A p \in Procs : WF_vars(AttemptEnds(p)) /\ WF_vars(BackoffElapsed(p))

\* what a finished call of getMovieDetailsAndCache gave its caller
ReturnedNull(r) == r.result \in {"not found", "failed", "no record"}
ReturnedRecord(r) == r.result \in {"cached", "refreshed"}

\* --------------------------------------------------------------- search
\* answers of the upstream search endpoint: Response 'False', or a page of
\* ids (tt1, tt2) with the total it reports as a string
SearchResponses ==
  {[Response |-> "False", Search |-> <<>>, totalResults |-> <<>>],
   [Response |-> "True", Search |-> <<"tt1", "tt2">>,
    totalResults |-> <<"1", "7">>],
   [Response |-> "True", Search |-> <<"tt2", "tt1">>,
    totalResults |-> <<"x">>]}

\* what convertOMDBToMovie makes of the details of a listed movie
PageDetails ==
  {[title |-> <<"A", "B", "C">>, year |-> Some(1999), runtimeMinutes |-> Some(90),
    genre |-> Some(<<"Drama">>), director |-> Some(<<"Ann">>)],
   [title |-> T_xyz, year |-> NULL, runtimeMinutes |-> NULL,
    genre |-> NULL, director |-> NULL]}

\* queries of a search request: the empty one, a part of a title, a title
HybridQueries == {<<>>, <<"b", "c">>, T_xyz}

\* the callers of a search: optionalAuth lets a request without a user in
Anonymous == "none"
Callers == Users \cup {Anonymous}

\* the custom movies the users create while searches run
SearchCreateBodies == {b \in CreateBodies : b.title \in {T_abc, T_xyz}}

\* the sequences that hold every element of a set once
InSomeOrder(S) ==
  {f \in [1..Cardinality(S) -> S] : \A i, j \in DOMAIN f : f[i] = f[j] => i = j}

DigitValue(c) == CASE c = "0" -> 0 [] c = "1" -> 1 [] c = "7" -> 7 [] OTHER -> 0

\* parseInt(text, 10): the number its leading digits spell, NaN (NULL here)
\* when it does not start with a digit
RECURSIVE LeadingDigits(_, _, _)
LeadingDigits(text, i, acc) ==
  IF i > Len(text) \/ text[i] \notin DigitChars THEN acc
  ELSE LeadingDigits(text, i + 1, 10 * acc + DigitValue(text[i]))

parseInt(text) ==
  IF Len(text) = 0 \/ text[1] \notin DigitChars THEN NULL
  ELSE Some(LeadingDigits(text, 1, 0))

\* the Movie object made of a row
mapRowToMovie(id) ==
  [id |-> id, title |-> movies[id].title, source |-> movies[id].source,
   createdByUserId |-> movies[id].created_by_user_id]

\* a search that keeps an entry for every listed movie
settledMovies(settled) ==
  [k \in DOMAIN settled |-> [id |-> 0, title |-> <<>>, source |-> "none",
                             createdByUserId |-> "none"]]

\* omdbService.searchMovies: the fulfilled results that are not null, in the
\* order of the page
validMovies(settled) ==
  LET kept == SelectSeq(settled,
                LAMBDA r : r.status = "fulfilled" /\ r.value # NULL)
  IN [k \in DOMAIN kept |-> CHOOSE v \in kept[k].value : TRUE]

\* a hybrid search that keeps every upstream item
combinedItemsUnfiltered(customMovies, omdbItems) == customMovies \o omdbItems

\* moviesService.searchMoviesHybrid: the custom movies first, then the
\* upstream items whose title, in lower case, no custom movie has
combinedItems(customMovies, omdbItems) ==
  customMovies \o
    SelectSeq(omdbItems,
      LAMBDA omdbMovie :
        ~\E k \in DOMAIN customMovies :
           LOWER(customMovies[k].title) = LOWER(omdbMovie.title))

\* a hybrid search that reports the number of items it returns
hybridTotalReturned(omdbTotal, customMovies, omdbItems) ==
  Len(combinedItems(customMovies, omdbItems))

\* moviesService.searchMoviesHybrid: omdbResults.total + customMovies.length
hybridTotal(omdbTotal, customMovies, omdbItems) == omdbTotal + Len(customMovies)

\* one step of a search in flight
SearchStep(p, pc) ==
  /\ req[p].op = "search"
  /\ req[p].pc = pc
  /\ UNCHANGED <<user_movies, started, interleaved, concurrent, clock>>

\* moviesController.searchMovies: includeCustom = !!req.user, then
\* moviesService.searchMoviesHybrid(query, page, includeCustom): the query
\* is checked and omdbService.searchMovies sends the page-level call
SearchStart(p, caller, query) ==
  /\ Accept(p, IF caller = Anonymous THEN "u1" ELSE caller)
  /\ Cardinality({q \in Procs : InFlight(q) /\ req[q].op = "search"}) < MaxSearches
  /\ LET r == [Idle EXCEPT !.op = "search", !.userId = caller,
                           !.query = query,
                           !.includeCustom = (caller # Anonymous)]
     IN req' = Admit(p, IF Len(query) < 1 THEN Finish(r, "invalid")
                        ELSE [r EXCEPT !.pc = "page"])
  /\ UNCHANGED <<movies, user_movies>>

\* omdbService.searchMovies: fetchWithRetry throws, and so does the search
SearchPageFails(p) ==
  /\ SearchStep(p, "page")
  /\ req' = [req EXCEPT ![p] = Finish(req[p], "raised")]
  /\ UNCHANGED movies

\* omdbService.searchMovies: the page-level call answers; Response 'False'
\* gives no items and total 0, otherwise every listed id gets its
\* getMovieDetailsAndCache
SearchPageResponds(p, searchResponse) ==
  /\ SearchStep(p, "page")
  /\ req' = [req EXCEPT ![p] =
       IF searchResponse.Response = "False"
       THEN [req[p] EXCEPT !.pc = IF req[p].includeCustom THEN "custom" ELSE "return"]
       ELSE [req[p] EXCEPT
               !.pc = "details",
               !.Search = searchResponse.Search,
               !.totalResults = searchResponse.totalResults,
               !.settled = [k \in DOMAIN searchResponse.Search |->
                             [status |-> "pending", value |-> NULL]]]]
  /\ UNCHANGED movies

\* the getMovieDetailsAndCache of the k-th listed id settles: with the
\* cached record when it is fresh, otherwise with what the detail call
\* gives: the record written from the details, or null
ResolveItem(p, k, outcome, movieData) ==
  /\ SearchStep(p, "details")
  /\ k \in DOMAIN req[p].settled
  /\ req[p].settled[k].status = "pending"
  /\ LET imdbId == req[p].Search[k]
         cachedMovie == getCachedMovie(imdbId)
         fresh == {i \in cachedMovie : isCacheFresh(movies[i].updated_at)}
         settle(value) ==
           [req EXCEPT ![p].settled[k] = [status |-> "fulfilled", value |-> value]]
     IN IF fresh # {}
        THEN /\ outcome = "cached"
             /\ movies' = movies
             /\ req' = settle(Some(mapRowToMovie(CHOOSE i \in fresh : TRUE)))
        ELSE \/ /\ outcome = "details"
                /\ movies' = Upserted(imdbId, movieData)
                /\ LET id == IF cachedMovie = {} THEN Len(movies) + 1
                             ELSE CHOOSE i \in cachedMovie : TRUE
                   IN req' = settle(Some([id |-> id, title |-> movieData.title,
                                          source |-> "omdb",
                                          createdByUserId |-> "none"]))
             \/ /\ outcome \in {"not found", "failed"}
                /\ movies' = movies
                /\ req' = settle(NULL)

\* omdbService.searchMovies: every detail call has settled; the valid
\* movies and parseInt(totalResults, 10) || 0 are returned
SearchJoin(p) ==
  /\ SearchStep(p, "details")
  /\ \A k \in DOMAIN req[p].settled : req[p].settled[k].status = "fulfilled"
  /\ req' = [req EXCEPT
       ![p].omdbItems = validMovies(req[p].settled),
       ![p].omdbTotal = COALESCE(parseInt(req[p].totalResults), 0),
       ![p].pc = IF req[p].includeCustom THEN "custom" ELSE "return"]
  /\ UNCHANGED movies

\* searchMoviesHybrid without includeCustom: return omdbResults
SearchReturnOmdb(p) ==
  /\ SearchStep(p, "return")
  /\ req' = [req EXCEPT ![p] =
       [Finish(req[p], "ok") EXCEPT !.items = req[p].omdbItems,
                                    !.total = req[p].omdbTotal]]
  /\ UNCHANGED movies

\* searchMoviesHybrid with includeCustom: moviesRepo.searchByTitle(query,
\* 10), in the order the statement gives its rows, and the combined result
SearchCustom(p) ==
  /\ SearchStep(p, "custom")
  /\ \E customMovies \in
         InSomeOrder({mapRowToMovie(id) : id \in searchByTitle(req[p].query)}) :
       req' = [req EXCEPT ![p] =
         [Finish(req[p], "ok") EXCEPT
            !.items = combinedItems(customMovies, req[p].omdbItems),
            !.total = hybridTotal(req[p].omdbTotal, customMovies,
                                  req[p].omdbItems)]]
  /\ UNCHANGED movies

NextSearch ==
  \/ \E p \in Procs, u \in Users, b \in SearchCreateBodies :
       CreateCheck(p, u, b)
  \/ \E p \in Procs : CreateMovie(p)
  \/ \E p \in Procs : CreateLink(p)
  \/ \E p \in Procs, c \in Callers, q \in HybridQueries : SearchStart(p, c, q)
  \/ \E p \in Procs : SearchPageFails(p)
  \/ \E p \in Procs, r \in SearchResponses : SearchPageResponds(p, r)
  \/ \E p \in Procs, o \in {"cached", "details", "not found", "failed"},
        d \in PageDetails :
       \E k \in DOMAIN req[p].settled : ResolveItem(p, k, o, d)
  \/ \E p \in Procs : SearchJoin(p)
  \/ \E p \in Procs : SearchReturnOmdb(p)
  \/ \E p \in Procs : SearchCustom(p)

\* searches among the requests that create custom movies
SpecSearch == Init /\ [][NextSearch]_vars

\* ------------------------------------------------------------- detaching
\* the store after the upstream movie tt1 was cached and every user made it
\* a favorite and gave it a title and a year of their own; requests are
\* counted from here
InitDetach ==
  /\ movies =
       <<[title |-> T_abc, normalized_title |-> normalizeTitle(T_abc),
          year |-> Some(1999), runtime_minutes |-> Some(90),
          genre |-> Some(<<"Drama">>), director |-> Some(<<"Ann">>),
          poster |-> NULL, source |-> "omdb", created_by_user_id |-> "none",
          omdb_id |-> "tt1", is_deleted |-> FALSE, updated_at |-> 0]>>
  /\ user_movies =
       {[userId |-> u, movieId |-> 1, isFavorite |-> TRUE,
         overridden_title |-> Some(T_xyz), overridden_year |-> Some(2024),
         overridden_runtime_minutes |-> NULL, overridden_genre |-> NULL,
         overridden_director |-> NULL,
         effective_normalized_title |-> normalize_title(T_xyz),
         updated_at |-> 1] : u \in Users}
  /\ req = [p \in Procs |-> Idle]
  /\ started = 0
  /\ interleaved = 0
  /\ concurrent = FALSE
  /\ clock = 0

NextDetach ==
  \/ \E p \in Procs, u \in Users, m \in KnownIds : DeleteFind(p, u, m)
  \/ \E p \in Procs : DeleteLink(p)
  \/ \E p \in Procs, u \in Users, m \in KnownIds, f \in BOOLEAN :
       SetFavoriteFindLink(p, u, m, f)
  \/ \E p \in Procs : SetFavoriteUpdate(p)
  \/ \E p \in Procs : SetFavoriteFindMovie(p)
  \/ \E p \in Procs : SetFavoriteCheck(p)
  \/ \E p \in Procs : SetFavoriteInsert(p)
  \/ \E p \in Procs, u \in Users, m \in KnownIds, b \in UpdateBodies :
       UpdateFind(p, u, m, b)
  \/ \E p \in Procs : UpdateOverrideCheck(p)
  \/ \E p \in Procs : UpdateOverrideWrite(p)
  \/ \E p \in Procs : UpdateReload(p)
  \/ \E d \in OmdbDetails : UpsertFromOmdb("tt1", d)

\* deletes, favourites and overrides on links that carry overrides
SpecDetach == InitDetach /\ [][NextDetach]_vars

\* ----------------------------------------------------------- validation
\* drafts createMovieSchema refuses, one for each of its rules, and one it
\* lets through
DraftBodies ==
  LET ok == [title |-> T_abc, year |-> 1999, runtimeMinutes |-> 90,
             genre |-> <<"Drama">>, director |-> <<"Ann">>, poster |-> NULL]
  IN {ok,
      [ok EXCEPT !.title = <<"a", "b">>],
      [ok EXCEPT !.year = 1887],
      [ok EXCEPT !.year = 2101],
      [ok EXCEPT !.runtimeMinutes = 0],
      [ok EXCEPT !.genre = <<>>],
      [ok EXCEPT !.director = <<>>]}

\* patches updateMovieSchema refuses, one for each of its rules, and two it
\* lets through
PatchBodies ==
  {[NoFields EXCEPT !.title = Some(T_xyz)],
   [NoFields EXCEPT !.year = Some(2100), !.runtimeMinutes = Some(1)],
   [NoFields EXCEPT !.title = Some(<<"x", "y">>)],
   [NoFields EXCEPT !.year = Some(1887)],
   [NoFields EXCEPT !.year = Some(2101)],
   [NoFields EXCEPT !.runtimeMinutes = Some(0)],
   [NoFields EXCEPT !.genre = Some(<<>>)],
   [NoFields EXCEPT !.director = Some(<<>>)]}

\* a schema that lets every draft through
anyDraft(data) == TRUE

\* createMovieSchema.parse(data) succeeds (the length of the single genre
\* and director names is not modelled)
createMovieSchema(data) ==
  /\ Len(data.title) >= 3
  /\ data.year >= 1888 /\ data.year <= 2100
  /\ data.runtimeMinutes >= 1
  /\ Len(data.genre) >= 1
  /\ Len(data.director) >= 1

\* updateMovieSchema.parse(data) succeeds: the rules of createMovieSchema
\* for the fields that are given
updateMovieSchema(data) ==
  /\ \A t \in data.title : Len(t) >= 3
  /\ \A y \in data.year : y >= 1888 /\ y <= 2100
  /\ \A m \in data.runtimeMinutes : m >= 1
  /\ \A g \in data.genre : Len(g) >= 1
  /\ \A d \in data.director : Len(d) >= 1

\* parse throws a ZodError, which errorHandler answers with 400: the request
\* ends before the service has sent a statement
ValidationError(p, userId, r) ==
  /\ Accept(p, userId)
  /\ req' = Admit(p, Finish(r, "invalid"))
  /\ UNCHANGED <<movies, user_movies>>

\* moviesService.createCustomMovie from its first statement
createCustomMovie(p, userId, data) ==
  IF createMovieSchema(data)
  THEN CreateCheck(p, userId, data)
  ELSE ValidationError(p, userId,
         [Idle EXCEPT !.op = "create", !.userId = userId,
                      !.title = Some(data.title), !.year = Some(data.year),
                      !.runtimeMinutes = Some(data.runtimeMinutes),
                      !.genre = Some(data.genre),
                      !.director = Some(data.director)])

\* moviesService.updateMovie from its first statement
updateMovie(p, userId, movieId, data) ==
  IF updateMovieSchema(data)
  THEN UpdateFind(p, userId, movieId, data)
  ELSE ValidationError(p, userId,
         [Idle EXCEPT !.op = "update", !.userId = userId,
                      !.movieId = movieId, !.title = data.title,
                      !.year = data.year,
                      !.runtimeMinutes = data.runtimeMinutes,
                      !.genre = data.genre, !.director = data.director])

NextValidate ==
  \/ \E p \in Procs, u \in Users, b \in DraftBodies :
       createCustomMovie(p, u, b)
  \/ \E p \in Procs : CreateMovie(p)
  \/ \E p \in Procs : CreateLink(p)
  \/ \E p \in Procs, u \in Users, m \in KnownIds, b \in PatchBodies :
       updateMovie(p, u, m, b)
  \/ \E p \in Procs : UpdateOwnerCheck(p)
  \/ \E p \in Procs : UpdateOwnerWrite(p)
  \/ \E p \in Procs : UpdateOverrideCheck(p)
  \/ \E p \in Procs : UpdateOverrideWrite(p)
  \/ \E p \in Procs : UpdateReload(p)

\* creates and updates with drafts and patches the schemas may refuse
SpecValidate == Init /\ [][NextValidate]_vars

\* ----------------------------------------------------- the normalizer
\* the characters of raw titles: a lower-case and an upper-case letter, the
\* blank, a hyphen and a digit
TitleChars == {"a", "B", " ", "-", "7"}

\* the raw titles of at most MaxLen characters
RawTitles == UNION {[1..n -> TitleChars] : n \in 0..MaxLen}

\* a caller holds a raw title
InitNormalize ==
  /\ movies = <<>>
  /\ user_movies = {}
  /\ \E rawTitle \in RawTitles :
       req = [p \in Procs |->
                IF p = 1 THEN [Idle EXCEPT !.op = "normalize", !.pc = "raw",
                                           !.title = Some(rawTitle)]
                ELSE Idle]
  /\ started = 0
  /\ interleaved = 0
  /\ concurrent = FALSE
  /\ clock = 0

\* normalizeTitle(rawTitle)
NormalizeTitle(p) ==
  /\ req[p].op = "normalize" /\ req[p].pc = "raw"
  /\ req' = [req EXCEPT
       ![p].normalized = Some(normalizeTitle(COALESCE(req[p].title, <<>>))),
       ![p].pc = "normalized"]
  /\ UNCHANGED <<movies, user_movies, started, interleaved, concurrent, clock>>

\* normalizeTitle of the result
NormalizeAgain(p) ==
  /\ req[p].op = "normalize" /\ req[p].pc = "normalized"
  /\ req' = [req EXCEPT
       ![p].renormalized =
          Some(normalizeTitle(COALESCE(req[p].normalized, <<>>))),
       ![p].pc = "done"]
  /\ UNCHANGED <<movies, user_movies, started, interleaved, concurrent, clock>>

NextNormalize ==
  \/ \E p \in Procs : NormalizeTitle(p)
  \/ \E p \in Procs : NormalizeAgain(p)

\* normalizeTitle applied to a raw title and to its own result
SpecNormalize == InitNormalize /\ [][NextNormalize]_vars

\* ----------------------------------------------------------- vocabulary
\* the rows of one user
LinksOf(userId) == {r \in user_movies : r.userId = userId}

\* the row links a movie that is not soft-deleted
Live(r) == ~movies[r.movieId].is_deleted

\* the title the user sees: the override if set, else the canonical title
EffectiveTitle(r) == COALESCE(r.overridden_title, movies[r.movieId].title)

EqualIgnoringCase(a, b) == LOWER(a) = LOWER(b)

\* two titles have the same normalized title, whichever of the program's two
\* normalizers is asked
SameNormalized(a, b) ==
  /\ EqualIgnoringCase(normalizeTitle(a), normalizeTitle(b))
  /\ EqualIgnoringCase(normalize_title(a), normalize_title(b))

\* the row carries title t in some sense: its stored key or its effective
\* title agrees with t under at least one normalizer
CarriesTitle(r, t) ==
  \/ EqualIgnoringCase(r.effective_normalized_title, normalizeTitle(t))
  \/ EqualIgnoringCase(r.effective_normalized_title, normalize_title(t))
  \/ EqualIgnoringCase(normalizeTitle(EffectiveTitle(r)), normalizeTitle(t))
  \/ EqualIgnoringCase(normalize_title(EffectiveTitle(r)), normalize_title(t))

IsOwner(userId, movieId) ==
  /\ movieId \in DOMAIN movies
  /\ movies[movieId].source = "custom"
  /\ movies[movieId].created_by_user_id = userId

TitleOf(r) == COALESCE(r.title, <<>>)

\* slot p has just accepted a createCustomMovie call
CreateCalled(p) ==
  /\ started' = started + 1
  /\ req'[p] # req[p]
  /\ req'[p].op = "create"

\* ------------------------------------------------------------------- C1
\* C1: in every reachable state no user has two links to non-deleted movies
\* whose effective normalized titles are equal ignoring case.
C1_UniqueEffectiveTitle ==
  \A r1, r2 \in user_movies :
    (/\ r1.userId = r2.userId
     /\ r1.movieId # r2.movieId
     /\ Live(r1)
     /\ Live(r2))
    => ~SameNormalized(EffectiveTitle(r1), EffectiveTitle(r2))

\* ------------------------------------------------------------------- C2
\* a createCustomMovie, or an updateMovie that sets a title override
IsCreateOrOverride(r) ==
  \/ r.op = "create"
  \/ r.op = "update" /\ r.title # NULL /\ ~IsOwner(r.userId, r.movieId)

\* the requests in slots p and q are finished, were in flight together, came
\* from one user, and aimed at one normalized title for two different movies
Racing(p, q) ==
  /\ p # q
  /\ concurrent
  /\ req[p].pc = "done" /\ req[q].pc = "done"
  /\ req[p].userId = req[q].userId
  /\ IsCreateOrOverride(req[p]) /\ IsCreateOrOverride(req[q])
  /\ req[p].movieId # req[q].movieId
  /\ SameNormalized(TitleOf(req[p]), TitleOf(req[q]))

Succeeded(r) == r.result = "ok"

\* C2: of two concurrent requests of one user (two createCustomMovie calls,
\* two title overrides, or one of each) that aim at the same normalized
\* title, at most one succeeds.  Stated for requests on two different
\* movies, the case in which two successes would leave two links with one
\* title.
C2_AtMostOneSucceeds ==
  \A p, q \in Procs : Racing(p, q) => ~(Succeeded(req[p]) /\ Succeeded(req[q]))

\* ------------------------------------------------------------------- C3
\* the user owns a custom movie, not deleted and linked, whose title has the
\* normalized title of t
HasOwnMovieTitled(userId, t) ==
  \E r \in LinksOf(userId) :
    /\ IsOwner(userId, r.movieId)
    /\ Live(r)
    /\ SameNormalized(movies[r.movieId].title, t)

\* C3: createCustomMovie(U, T2) is refused with the Conflict error when U
\* has a custom movie, created as T1 and not deleted, with
\* normalize(T1) = normalize(T2).  The Conflict error of createCustomMovie
\* is raised by its pre-check, in the step that accepts the call.
C3_DuplicateCreateConflicts ==
  [][\A p \in Procs :
       (CreateCalled(p) /\ HasOwnMovieTitled(req'[p].userId, TitleOf(req'[p])))
       => req'[p].result = "conflict"]_vars

\* ------------------------------------------------------------------- C4
\* the user has a custom movie of their own, not deleted and linked, titled t
HasCustomMovieTitled(userId, t) ==
  \E r \in LinksOf(userId) :
    /\ IsOwner(userId, r.movieId)
    /\ Live(r)
    /\ movies[r.movieId].title = t

\* no link of the user, to a deleted movie or not, has an effective title
\* with the normalized title of t, whichever normalizer is asked
NoLinkTitled(userId, t) ==
  \A r \in LinksOf(userId) :
    /\ ~EqualIgnoringCase(normalizeTitle(EffectiveTitle(r)), normalizeTitle(t))
    /\ ~EqualIgnoringCase(normalize_title(EffectiveTitle(r)), normalize_title(t))

\* C4: when user A has a custom movie titled T and user B has no link with
\* that normalized title, createCustomMovie(B, T) is not refused: uniqueness
\* is per user, never global.
C4_UniquenessIsPerUser ==
  [][\A p \in Procs :
       (/\ CreateCalled(p)
        /\ NoLinkTitled(req'[p].userId, TitleOf(req'[p]))
        /\ \E a \in Users \ {req'[p].userId} :
             HasCustomMovieTitled(a, TitleOf(req'[p])))
       => req'[p].pc = "create_movie"]_vars

\* ------------------------------------------------------------------- C5
\* the statement slot p is about to issue writes a user_movies row that the
\* table's uniqueness constraints refuse
WriteRefused(p) ==
  LET r == req[p]
      rows == findByUserAndMovie(r.userId, r.movieId)
      old == CHOOSE x \in rows : TRUE
  IN CASE r.pc = "create_link" ->
            ~InsertAccepted(InsertRow(r.userId, r.movieId, FALSE))
       [] r.pc = "sf_insert" ->
            ~InsertAccepted(InsertRow(r.userId, r.movieId, r.isFavorite))
       [] r.pc = "upd_ovr_write" ->
            /\ ~NothingToSet(r)
            /\ rows # {}
            /\ ~UpdateAccepted(old, Overridden(old, r))
       [] r.pc = "sf_update" ->
            /\ rows # {}
            /\ ~UpdateAccepted(old, Favorited(old, r.isFavorite))
       [] OTHER -> FALSE

\* C5: a write that the store's uniqueness constraint refuses is reported to
\* the caller as the Conflict error of the pre-check, with its status.
C5_RefusedWriteIsConflict ==
  [][\A p \in Procs :
       (WriteRefused(p) /\ req'[p] # req[p])
       => /\ req'[p].result = "conflict"
          /\ HttpStatus(req'[p].op, req'[p].result) = 409]_vars

\* ------------------------------------------------------------------- C6
\* C6: every custom movie that is not deleted has a link from its owner,
\* except while the createCustomMovie that is inserting it is still running.
C6_CreateIsAtomic ==
  \A id \in DOMAIN movies :
    (/\ movies[id].source = "custom"
     /\ ~movies[id].is_deleted
     /\ ~\E p \in Procs : req[p].pc = "create_link" /\ req[p].movieId = id)
    => findByUserAndMovie(movies[id].created_by_user_id, id) # {}

\* ------------------------------------------------------------------- C7
\* C7: the effective normalized title stored on each link is the normalized
\* effective title (override if set, else the current canonical title).
C7_StoredKeyIsCurrent ==
  \A r \in user_movies :
    \/ EqualIgnoringCase(r.effective_normalized_title,
                         normalize_title(EffectiveTitle(r)))
    \/ EqualIgnoringCase(r.effective_normalized_title,
                         normalizeTitle(EffectiveTitle(r)))

\* ------------------------------------------------------------------- C8
\* the user soft-deleted an own custom movie with the normalized title of t
\* and has no link to a non-deleted movie that carries that title
OnlyDeletedMovieTitled(userId, t) ==
  /\ \E r \in LinksOf(userId) :
       /\ IsOwner(userId, r.movieId)
       /\ ~Live(r)
       /\ SameNormalized(movies[r.movieId].title, t)
  /\ \A r \in LinksOf(userId) : Live(r) => ~CarriesTitle(r, t)

\* C8: after U soft-deleted the own custom movie titled T, a
\* createCustomMovie(U, T') with the same normalized title is not refused.
C8_DeletedTitleIsFree ==
  [][\A p \in Procs :
       (CreateCalled(p)
        /\ OnlyDeletedMovieTitled(req'[p].userId, TitleOf(req'[p])))
       => req'[p].result # "conflict"]_vars

\* ------------------------------------------------------------------- C9
\* slot p takes the uniqueness check of the given branch of updateMovie
Checks(p, pc) == req[p].pc = pc /\ req'[p] # req[p]

\* C9: the owner's updateMovie with a new title is refused with Conflict
\* exactly when another link of that user to a non-deleted movie has the new
\* normalized title; the canonical record is then unchanged.
C9_OwnerRenameConflictsExactly ==
  [][\A p \in Procs :
       Checks(p, "upd_owner_check") =>
         LET others == {r \in LinksOf(req[p].userId) :
                          r.movieId # req[p].movieId /\ Live(r)}
         IN /\ (\E r \in others : SameNormalized(EffectiveTitle(r), TitleOf(req[p])))
               => req'[p].result = "conflict"
            /\ req'[p].result = "conflict"
               => /\ \E r \in others : CarriesTitle(r, TitleOf(req[p]))
                  /\ movies' = movies]_vars

\* ------------------------------------------------------------------ C10
\* C10: updateMovie with title T on a movie the user does not own is refused
\* with Conflict, and writes nothing, whenever another link of the user to a
\* non-deleted movie has effective normalized title normalize(T).
C10_OverrideConflicts ==
  [][\A p \in Procs :
       (/\ Checks(p, "upd_ovr_check")
        /\ \E r \in LinksOf(req[p].userId) :
             /\ r.movieId # req[p].movieId
             /\ Live(r)
             /\ SameNormalized(EffectiveTitle(r), TitleOf(req[p])))
       => /\ req'[p].result = "conflict"
          /\ user_movies' = user_movies]_vars

\* ------------------------------------------------------------------ C11
\* slot p takes a step of an updateMovie(U, M, patch) on an existing movie M
\* that U does not own
OverrideStep(p, U, M) ==
  /\ req'[p] # req[p]
  /\ req'[p].op = "update"
  /\ req'[p].userId = U
  /\ req'[p].movieId = M
  /\ ~IsOwner(U, M)

\* C11: no step of updateMovie(U, M, patch) on a movie M that U does not own
\* changes M's canonical record or a link of another user: getMovie(M) and
\* every other user's listUserMovies result are the same before and after.
C11_OverrideLeavesOthersAlone ==
  [][\A p \in Procs, U \in Users, M \in DOMAIN movies :
       OverrideStep(p, U, M) =>
         /\ getMovieById(M)' = getMovieById(M)
         /\ movies'[M] = movies[M]
         /\ \A u \in Users \ {U} :
              /\ LinksOf(u)' = LinksOf(u)
              /\ \A f \in BOOLEAN : getUserMovies(u, f)' = getUserMovies(u, f)]_vars

\* an override by one user is stored on a movie that another user links too
C11_Witness ==
  \E p \in Procs :
    /\ req[p].op = "update" /\ req[p].result = "ok"
    /\ \E r \in findByUserAndMovie(req[p].userId, req[p].movieId) :
         /\ r.overridden_title = req[p].title
         /\ r.overridden_title # NULL
         /\ ~IsOwner(r.userId, r.movieId)
         /\ \E o \in user_movies : o.movieId = r.movieId /\ o.userId # r.userId

\* ------------------------------------------------------------------ C12
\* C12: when U has no link to a movie M that U does not own, an updateMovie
\* (U, M, patch) that returns successfully has created the link: M is then in
\* listUserMovies(U), with the patched title as its effective title.
\* updateMovie returns successfully in the step that issues updateOverrides.
C12_OverrideCreatesLink ==
  [][\A p \in Procs :
       (/\ req[p].pc = "upd_ovr_write"
        /\ req'[p].pc = "upd_reload"
        /\ findByUserAndMovie(req[p].userId, req[p].movieId) = {})
       => (\E i \in DOMAIN getUserMovies(req[p].userId, FALSE) :
             LET entry == getUserMovies(req[p].userId, FALSE)[i]
             IN /\ entry.id = req[p].movieId
                /\ req[p].title # NULL => entry.title = TitleOf(req[p]))']_vars

\* ------------------------------------------------------------------ C13
\* C13: setFavorite(U, M, flag) for a U without a link to M creates no link
\* and fails with the Conflict error whenever another link of U to a
\* non-deleted movie has M's normalized title.  Stated for the two steps that
\* decide it, the pre-check and the INSERT.
C13_FavoriteConflicts ==
  [][\A p \in Procs :
       (/\ req[p].pc \in {"sf_check", "sf_insert"}
        /\ req'[p] # req[p]
        /\ \E r \in LinksOf(req[p].userId) :
             /\ r.movieId # req[p].movieId
             /\ Live(r)
             /\ SameNormalized(EffectiveTitle(r), movies[req[p].movieId].title))
       => /\ user_movies' = user_movies
          /\ req'[p].result = "conflict"]_vars

\* ------------------------------------------------------------------ C14
\* C14: once the owner's deleteMovie has soft-deleted a custom movie, no read
\* returns it for any user (getMovie, getMoviesByIds, listUserMovies and
\* searchHybrid omit it) and this stays so: the row is kept in the store and
\* stays soft-deleted.
C14_DeletedMovieIsHidden ==
  /\ [](\A id \in DOMAIN movies :
          movies[id].is_deleted =>
            /\ getMovieById(id) = NULL
            /\ \A ids \in SUBSET KnownIds : id \notin findByIds(ids)
            /\ \A u \in Users, f \in BOOLEAN :
                 \A i \in DOMAIN getUserMovies(u, f) : getUserMovies(u, f)[i].id # id
            /\ \A q \in SearchQueries, items \in SUBSET CachedRows :
                 id \notin searchMoviesHybrid(q, items))
  /\ [][\A id \in DOMAIN movies :
          movies[id].is_deleted =>
            /\ id \in DOMAIN movies'
            /\ movies'[id].is_deleted]_vars

\* a soft-deleted custom movie that its owner still links and that a search
\* query matches by title
C14_Witness ==
  \E id \in DOMAIN movies :
    /\ movies[id].is_deleted
    /\ movies[id].source = "custom"
    /\ findByUserAndMovie(movies[id].created_by_user_id, id) # {}
    /\ \E q \in SearchQueries : ILIKE(movies[id].title, q)
    /\ \E p \in Procs : req[p].op = "delete" /\ req[p].result = "ok"
                        /\ req[p].movieId = id

\* ------------------------------------------------------------------ C15
\* C15: no step of deleteMovie(U, M) on a movie M that U does not own changes
\* a canonical record or a link of another user, and of U's links it removes
\* at most the one to M, leaving the favorite flag and the overrides of the
\* others as they were.
C15_DetachLeavesOthersAlone ==
  [][\A p \in Procs, U \in Users, M \in DOMAIN movies :
       (/\ req'[p] # req[p]
        /\ req'[p].op = "delete"
        /\ req'[p].userId = U
        /\ req'[p].movieId = M
        /\ ~IsOwner(U, M))
       => /\ movies' = movies
          /\ \A u \in Users \ {U} : LinksOf(u)' = LinksOf(u)
          /\ LET Untimed(rows) == {[r EXCEPT !.updated_at = 0] : r \in rows}
                 others == {r \in LinksOf(U) : r.movieId # M}
             IN /\ Untimed(LinksOf(U))' \in {Untimed(LinksOf(U)), Untimed(others)}
                /\ req'[p].result = "ok" => Untimed(LinksOf(U))' = Untimed(others)]_vars

\* a user who is not the owner has removed the own link to a movie that
\* another user still links
C15_Witness ==
  \E p \in Procs :
    /\ req[p].op = "delete" /\ req[p].result = "ok"
    /\ ~IsOwner(req[p].userId, req[p].movieId)
    /\ findByUserAndMovie(req[p].userId, req[p].movieId) = {}
    /\ \E o \in user_movies :
         /\ o.movieId = req[p].movieId
         /\ o.userId # req[p].userId
         /\ findById(o.movieId) # {}

\* ------------------------------------------------------------------ C16
\* C16: a step of updateMovie, setFavorite or deleteMovie on a movie id that
\* is absent or soft-deleted changes neither table, and the call ends with
\* not-found, also when the caller has a link row to the soft-deleted movie.
\* Stated for a call that no other request overlaps, so that the movie was
\* absent or soft-deleted when the call began.
C16_MissingMovieIsNotFound ==
  [][\A p \in Procs :
       (/\ req'[p] # req[p]
        /\ ~concurrent'
        /\ req'[p].op \in {"update", "favorite", "delete"}
        /\ findById(req'[p].movieId) = {})
       => /\ movies' = movies
          /\ user_movies' = user_movies
          /\ req'[p].pc = "done" => req'[p].result = "notfound"]_vars

\* ------------------------------------------------------------------ C17
\* C17: the poster of an existing movie never changes, whatever updateMovie
\* (by the owner or by another user), setFavorite, deleteMovie or a cache
\* refresh does, and every entry of listUserMovies carries the poster of the
\* canonical record.
C17_PosterIsFixed ==
  /\ [][\A id \in DOMAIN movies : movies'[id].poster = movies[id].poster]_vars
  /\ [](\A u \in Users, f \in BOOLEAN :
          \A i \in DOMAIN getUserMovies(u, f) :
            getUserMovies(u, f)[i].poster = movies[getUserMovies(u, f)[i].id].poster)

\* the owner has changed the year of a movie that was created with a poster,
\* and the movie is listed for the owner
C17_Witness ==
  \E p \in Procs :
    /\ req[p].op = "update" /\ req[p].result = "ok"
    /\ IsOwner(req[p].userId, req[p].movieId)
    /\ req[p].year # NULL
    /\ movies[req[p].movieId].year = req[p].year
    /\ movies[req[p].movieId].poster # NULL
    /\ \E i \in DOMAIN getUserMovies(req[p].userId, FALSE) :
         getUserMovies(req[p].userId, FALSE)[i].id = req[p].movieId

\* ------------------------------------------------------------------ C18
\* C18: every entry of listUserMovies shows, for each of title, year,
\* runtime, genre and director, the link's override when it is set and the
\* canonical value otherwise; isFavorite is the link's flag and the overrides
\* object holds the raw override values, null where none is set.
C18_EffectiveView ==
  \A u \in Users, f \in BOOLEAN :
    \A i \in DOMAIN getUserMovies(u, f) :
      LET e == getUserMovies(u, f)[i]
          m == movies[e.id]
      IN \E um \in findByUserAndMovie(u, e.id) :
           /\ e.title = IF um.overridden_title # NULL
                        THEN CHOOSE t \in um.overridden_title : TRUE ELSE m.title
           /\ e.year = IF um.overridden_year # NULL
                       THEN um.overridden_year ELSE m.year
           /\ e.runtimeMinutes = IF um.overridden_runtime_minutes # NULL
                                 THEN um.overridden_runtime_minutes
                                 ELSE m.runtime_minutes
           /\ e.genre = IF um.overridden_genre # NULL
                        THEN um.overridden_genre ELSE m.genre
           /\ e.director = IF um.overridden_director # NULL
                           THEN um.overridden_director ELSE m.director
           /\ e.isFavorite = um.isFavorite
           /\ e.overrides = [title |-> um.overridden_title,
                             year |-> um.overridden_year,
                             runtimeMinutes |-> um.overridden_runtime_minutes,
                             genre |-> um.overridden_genre,
                             director |-> um.overridden_director]

\* a listed entry with an override of the year that differs from the
\* canonical year and with no override of the runtime
C18_Witness ==
  \E u \in Users :
    \E i \in DOMAIN getUserMovies(u, FALSE) :
      LET e == getUserMovies(u, FALSE)[i]
      IN /\ e.overrides.year # NULL
         /\ movies[e.id].year # NULL
         /\ e.overrides.year # movies[e.id].year
         /\ e.year = e.overrides.year
         /\ e.overrides.runtimeMinutes = NULL
         /\ e.runtimeMinutes = movies[e.id].runtime_minutes
         /\ e.runtimeMinutes # NULL

\* ------------------------------------------------------------------ C19
\* C19: listUserMovies(U, favoritesOnly) has exactly one entry for each link
\* of U to a movie that is not deleted (with favoritesOnly: for each such
\* link that is a favorite), in the order of decreasing link update time;
\* the link that setFavorite or an override has just written is the first
\* entry of listUserMovies(U).
C19_ListedOncePerLinkLatestFirst ==
  /\ [](\A u \in Users, f \in BOOLEAN :
          LET list == getUserMovies(u, f)
              links == {r \in LinksOf(u) : Live(r) /\ (f => r.isFavorite)}
              at(i) == CHOOSE r \in links : r.movieId = list[i].id
          IN /\ {list[i].id : i \in DOMAIN list} = {r.movieId : r \in links}
             /\ Len(list) = Cardinality(links)
             /\ \A i, j \in DOMAIN list :
                  i < j => at(i).updated_at > at(j).updated_at)
  /\ [][\A p \in Procs :
          (/\ req[p].pc \in {"sf_update", "sf_insert", "upd_ovr_write"}
           /\ req'[p] # req[p]
           /\ req'[p].result \notin {"dberror", "notfound"}
           /\ req[p].pc = "upd_ovr_write" => ~NothingToSet(req[p])
           /\ findByUserAndMovie(req[p].userId, req[p].movieId)' # {}
           /\ findById(req[p].movieId)' # {})
          => getUserMovies(req[p].userId, FALSE)'[1].id = req[p].movieId]_vars

\* setFavorite has moved the older of a user's two links to the front of the
\* list, and the list of favorites has that link only
C19_Witness ==
  \E p \in Procs :
    LET list == getUserMovies(req[p].userId, FALSE)
    IN /\ req[p].op = "favorite" /\ req[p].result = "ok" /\ req[p].isFavorite
       /\ Len(list) = 2
       /\ list[1].id = req[p].movieId
       /\ list[1].id < list[2].id
       /\ Len(getUserMovies(req[p].userId, TRUE)) = 1

\* ------------------------------------------------------------------ C20
\* slot p has just taken a call of getMovieDetailsAndCache for omdbId
Called(p, omdbId) ==
  /\ started' = started + 1
  /\ req'[p].op = "refresh"
  /\ req'[p].no = started'
  /\ req'[p].omdbId = omdbId

\* the calls in slots p and q are finished, were for one id, p was called
\* first, made an upstream call and wrote the refreshed record, and q was
\* called less than a TTL later
FirstFetchedSecondInWindow(p, q) ==
  /\ p # q
  /\ req[p].op = "refresh" /\ req[q].op = "refresh"
  /\ req[p].pc = "done" /\ req[q].pc = "done"
  /\ req[p].omdbId = req[q].omdbId
  /\ req[p].no < req[q].no
  /\ req[p].fetched = 1
  /\ req[p].result = "refreshed"
  /\ req[q].calledAt - req[p].calledAt < CACHE_TTL_HOURS

\* C20 as stated, its conclusion: two calls within one TTL window make
\* exactly one upstream call, that is, when the first of them made the
\* upstream call and refreshed the record, the second makes none.
C20_OneFetchPerWindowAnyCalls ==
  \A p, q \in Procs :
    FirstFetchedSecondInWindow(p, q) => req[q].fetched = 0

\* C20, amended: a call for an id whose cached record is younger than the
\* TTL returns that record and makes no upstream call; a call that finds the
\* record missing or at least TTL old makes an upstream detail call, and the
\* write that follows a successful answer sets updated_at to the time of the
\* write; so of two calls within one TTL window that do not overlap, the
\* first of which refreshed the record, the second makes no upstream call.
C20_FreshIsServedFromCache ==
  /\ [][\A p \in Procs, o \in OmdbIds :
          Called(p, o) =>
            LET rows == {i \in DOMAIN movies : movies[i].omdb_id = o}
                young == {i \in rows : clock - movies[i].updated_at < CACHE_TTL_HOURS}
            IN /\ movies' = movies
               /\ req'[p].fetched = 0
               /\ young # {} => /\ req'[p].pc = "done"
                                /\ req'[p].result = "cached"
                                /\ req'[p].movieId \in young
               /\ young = {} => req'[p].pc = "fetch"]_vars
  /\ [][\A p \in Procs :
          (req[p].pc = "fetch" /\ req'[p] # req[p])
          => req'[p].fetched = req[p].fetched + 1]_vars
  /\ [][\A p \in Procs :
          (req[p].pc = "cache" /\ req'[p] # req[p])
          => \E i \in DOMAIN movies' :
               /\ movies'[i].omdb_id = req[p].omdbId
               /\ movies'[i].updated_at = clock
               /\ movies'[i].title = TitleOf(req[p])]_vars
  /\ [](\A p, q \in Procs :
          (FirstFetchedSecondInWindow(p, q) /\ ~concurrent)
          => req[q].fetched = 0 /\ req[q].result = "cached")

\* a call refreshed the record, and a later call that did not overlap it,
\* made an hour or more later but within the TTL, was served from the cache
C20_Witness ==
  \E p, q \in Procs :
    /\ FirstFetchedSecondInWindow(p, q)
    /\ ~concurrent
    /\ req[q].calledAt > req[p].calledAt
    /\ req[q].result = "cached"
    /\ req[q].fetched = 0


\* ------------------------------------------------------------------ C21
\* C21: getMovieDetailsAndCache never raises; it returns null when upstream
\* reports not-found, when the upstream call fails after its retries, and
\* when a store read or write failed.
C21_NullOnEveryFailure ==
  \A p \in Procs :
    (req[p].op = "refresh" /\ req[p].pc = "done")
    => /\ req[p].result # "raised"
       /\ req[p].result \in {"not found", "failed"} => ReturnedNull(req[p])
       /\ req[p].storeErrors # {} => ReturnedNull(req[p])


\* ------------------------------------------------------------------ C22
\* C22: a getMovieDetailsAndCache whose upstream call fails or reports
\* not-found leaves the store unchanged: the step in which the call learns
\* of the failure changes no row of the movies table, so a record cached for
\* the id keeps its fields and its updated_at and is not deleted, and a call
\* that ended that way has written nothing.
C22_FailedRefreshKeepsStore ==
  /\ [][\A p \in Procs :
          (/\ req[p].pc = "fetch"
           /\ req'[p].pc = "done"
           /\ req'[p].result \in {"not found", "failed"})
          => movies' = movies]_vars
  /\ [](\A p \in Procs :
          (req[p].pc = "done" /\ req[p].result \in {"not found", "failed"})
          => ~req[p].wrote)

\* a call for an id whose cached record had gone stale ended with a failed
\* upstream call, and the stale record is still there
C22_Witness ==
  \E p \in Procs :
    /\ req[p].op = "refresh" /\ req[p].pc = "done"
    /\ req[p].result = "failed"
    /\ \E i \in getCachedMovie(req[p].omdbId) :
         req[p].calledAt - movies[i].updated_at >= CACHE_TTL_HOURS


\* ------------------------------------------------------------------ C23
\* C23: a call of fetchWithRetry makes at most maxRetries + 1 = 3 attempts;
\* it returns the first response it gets and attempts nothing after it; it
\* waits 1000 * 2^k ms after its k-th failed attempt, k = 0, 1; after the
\* third failure it throws the error of that attempt; and every call ends.
C23_BoundedRetries ==
  /\ [](\A p \in Procs :
          req[p].op = "fetch" =>
            LET failed == Len(req[p].errors)
            IN /\ failed <= maxRetries + 1
               /\ failed <= 3
               /\ Len(req[p].delays) = IF failed <= 2 THEN failed ELSE 2
               /\ \A k \in 0 .. 1 :
                    k + 1 <= Len(req[p].delays)
                    => req[p].delays[k + 1] = 1000 * (2 ^ k)
               /\ (req[p].pc = "done" /\ req[p].result \in FetchErrors)
                    => failed = 3 /\ req[p].result = req[p].errors[3]
               /\ (req[p].pc = "done" /\ req[p].result \in {"True", "False"})
                    => failed <= 2)
  /\ [][\A p \in Procs :
          (req[p].op = "fetch" /\ req[p].pc = "done" /\ req'[p].op = "fetch")
          => /\ req'[p].errors = req[p].errors \/ req'[p].no # req[p].no
             /\ req'[p].pc = "done" \/ req'[p].no # req[p].no]_vars
  /\ \A p \in Procs :
       (req[p].op = "fetch" /\ req[p].pc # "done")
         ~> (req[p].op = "fetch" /\ req[p].pc = "done")

\* a call failed three times, having waited 1000 and 2000 ms, and threw; and
\* a call got its response at the third attempt
C23_Witness ==
  \E p, q \in Procs :
    /\ req[p].op = "fetch" /\ req[p].pc = "done"
    /\ req[p].result \in FetchErrors
    /\ req[p].delays = <<1000, 2000>>
    /\ req[q].op = "fetch" /\ req[q].pc = "done"
    /\ req[q].result = "True"
    /\ Len(req[q].errors) = 2


\* ------------------------------------------------------------------ C24
\* C24: when the detail calls of a page have settled, searchMovies returns
\* exactly the listed items whose getMovieDetailsAndCache gave a record, each
\* once and in the order of the page, and drops the items that gave null; a
\* search raises only in the step in which its page-level call fails, never
\* once the page has been listed.
C24_FailedItemsAreDropped ==
  /\ [][\A p \in Procs :
          (/\ req[p].op = "search" /\ req[p].pc = "details"
           /\ req'[p].op = "search" /\ req'[p].pc # "details")
          => LET settled == req[p].settled
                 kept == {k \in DOMAIN settled : settled[k].value # NULL}
                 rank(k) == Cardinality({l \in kept : l <= k})
             IN /\ req'[p].pc \in {"custom", "return"}
                /\ Len(req'[p].omdbItems) = Cardinality(kept)
                /\ \A k \in kept :
                     req'[p].omdbItems[rank(k)] \in settled[k].value
                /\ \A k \in kept :
                     movies[req'[p].omdbItems[rank(k)].id].omdb_id
                       = req[p].Search[k]]_vars
  /\ [][\A p \in Procs :
          (req'[p].op = "search" /\ req'[p].result = "raised")
          => (req[p].result = "raised" \/ req[p].pc = "page")]_vars
  /\ [](\A p \in Procs :
          (req[p].op = "search" /\ req[p].result = "ok"
           /\ ~req[p].includeCustom)
          => req[p].items = req[p].omdbItems)

\* a finished search whose page listed two movies: the first gave null and
\* was dropped, the second is the one item returned
C24_Witness ==
  \E p \in Procs :
    /\ req[p].op = "search" /\ req[p].result = "ok"
    /\ req[p].Search = <<"tt2", "tt1">>
    /\ req[p].settled[1].value = NULL
    /\ req[p].settled[2].value # NULL
    /\ Len(req[p].items) = 1
    /\ movies[req[p].items[1].id].omdb_id = "tt1"


\* ------------------------------------------------------------------ C25
\* C25: however calls of getMovieDetailsAndCache for one id interleave, the
\* store holds at most one record for the id, and exactly one once a call
\* has written; a record keeps its id (its row and its omdb_id) from then
\* on; and after every upsert the fields of the record are those of that
\* upsert, which no other step changes, so they are those of the last one.
C25_OneRecordLastWriterWins ==
  /\ [](\A o \in OmdbIds : Cardinality(getCachedMovie(o)) <= 1)
  /\ [](\A p \in Procs, o \in OmdbIds :
          (req[p].op = "refresh" /\ req[p].wrote /\ req[p].omdbId = o)
          => Cardinality(getCachedMovie(o)) = 1)
  /\ [][\A i \in DOMAIN movies :
          /\ i \in DOMAIN movies'
          /\ movies'[i].omdb_id = movies[i].omdb_id]_vars
  /\ [][movies' # movies =>
          \E p \in Procs :
            /\ req[p].op = "refresh" /\ req[p].pc = "cache" /\ req'[p].wrote
            /\ \E i \in DOMAIN movies' :
                 /\ movies'[i].omdb_id = req[p].omdbId
                 /\ Some(movies'[i].title) = req[p].title
                 /\ movies'[i].year = req[p].year
                 /\ movies'[i].runtime_minutes = req[p].runtimeMinutes
                 /\ movies'[i].genre = req[p].genre
                 /\ movies'[i].director = req[p].director
                 /\ movies'[i].updated_at = clock
                 /\ \A j \in DOMAIN movies' \ {i} :
                      j \in DOMAIN movies /\ movies'[j] = movies[j]]_vars

\* two overlapping calls for one id both fetched, with different details, and
\* both wrote: there is one record, with the fields one of them wrote
C25_Witness ==
  \E p, q \in Procs :
    /\ p # q /\ concurrent
    /\ req[p].op = "refresh" /\ req[q].op = "refresh"
    /\ req[p].pc = "done" /\ req[q].pc = "done"
    /\ req[p].omdbId = req[q].omdbId
    /\ req[p].wrote /\ req[q].wrote
    /\ req[p].title # req[q].title
    /\ Len(movies) = 1
    /\ Some(movies[1].title) = req[q].title
    /\ req[p].movieId = 1 /\ req[q].movieId = 1


\* ------------------------------------------------------------------ C26
\* C26: the items a search with custom results returns never hold a custom
\* movie and an upstream movie whose titles are equal when case is ignored:
\* of the upstream items searchMovies gave, exactly those whose title no
\* returned custom movie has are kept, in their order, after the custom ones.
C26_NoCustomUpstreamTwins ==
  \A p \in Procs :
    (req[p].op = "search" /\ req[p].result = "ok" /\ req[p].includeCustom)
    => LET items == req[p].items
           custom == {k \in DOMAIN items : items[k].source = "custom"}
           omdb == {k \in DOMAIN items : items[k].source = "omdb"}
           clashes(o) == \E c \in custom :
                           LOWER(items[c].title) = LOWER(o.title)
           unclashed == SelectSeq(req[p].omdbItems, LAMBDA o : ~clashes(o))
       IN /\ \A c \in custom, o \in omdb :
               LOWER(items[c].title) # LOWER(items[o].title)
          /\ \A c \in custom, o \in omdb : c < o
          /\ Len(items) = Cardinality(custom) + Len(unclashed)
          /\ \A k \in DOMAIN unclashed :
               items[Cardinality(custom) + k] = unclashed[k]

\* a search returned the custom movie "abc" and dropped the upstream movie
\* "ABC" that searchMovies had given
C26_Witness ==
  \E p \in Procs :
    /\ req[p].op = "search" /\ req[p].result = "ok" /\ req[p].includeCustom
    /\ \E k \in DOMAIN req[p].items :
         req[p].items[k].source = "custom" /\ req[p].items[k].title = T_abc
    /\ \E k \in DOMAIN req[p].omdbItems :
         req[p].omdbItems[k].title = <<"A", "B", "C">>
    /\ \A k \in DOMAIN req[p].items :
         req[p].items[k].title # <<"A", "B", "C">>
    /\ \E k \in DOMAIN req[p].items : req[p].items[k].source = "omdb"


\* ------------------------------------------------------------------ C27
\* C27: the custom movies a search returns to a caller are all owned by that
\* caller (stated for a search that overlapped no other request).
C27_CustomItemsAreTheCallers ==
  \A p \in Procs :
    (/\ req[p].op = "search" /\ req[p].result = "ok" /\ req[p].includeCustom
     /\ ~concurrent)
    => \A k \in DOMAIN req[p].items :
         req[p].items[k].source = "custom"
         => req[p].items[k].createdByUserId = req[p].userId


\* ------------------------------------------------------------------ C28
\* C28: the total of a search with custom results is the total the upstream
\* search reported (the number its totalResults spells, 0 when it spells
\* none or upstream answered Response 'False') plus the number of custom
\* movies returned; upstream items dropped as duplicates do not lower it.
C28_TotalIsUpstreamPlusCustom ==
  \A p \in Procs :
    (req[p].op = "search" /\ req[p].result = "ok" /\ req[p].includeCustom)
    => LET items == req[p].items
           custom == {k \in DOMAIN items : items[k].source = "custom"}
           reported == CASE req[p].totalResults = <<"1", "7">> -> 17
                         [] req[p].totalResults = <<"x">> -> 0
                         [] req[p].totalResults = <<>> -> 0
       IN /\ req[p].omdbTotal = reported
          /\ req[p].total = reported + Cardinality(custom)

\* upstream reported 17, one custom movie was returned and one upstream item
\* was dropped as its duplicate: the total is 18
C28_Witness ==
  \E p \in Procs :
    /\ req[p].op = "search" /\ req[p].result = "ok" /\ req[p].includeCustom
    /\ req[p].totalResults = <<"1", "7">>
    /\ Len(req[p].omdbItems) = 2
    /\ Len(req[p].items) = 2
    /\ req[p].items[1].source = "custom"
    /\ req[p].total = 18


\* ------------------------------------------------------------------ C29
\* C29: normalizeTitle is idempotent: applied to its own result it gives
\* that result again, for every raw title.
C29_NormalizeIsIdempotent ==
  \A p \in Procs :
    (req[p].op = "normalize" /\ req[p].pc = "done")
    => req[p].renormalized = req[p].normalized

\* a raw title with blanks at the ends and a run of characters that are not
\* letters between two words was normalized to "A B", and so was "A B"
C29_Witness ==
  \E p \in Procs :
    /\ req[p].op = "normalize" /\ req[p].pc = "done"
    /\ req[p].title = Some(<<"a", "-", "7", "B">>)
    /\ req[p].normalized = Some(<<"A", " ", "B">>)
    /\ req[p].renormalized = Some(<<"A", " ", "B">>)


\* ------------------------------------------------------------------ C30
\* C30: normalizeTitle turns a hyphen (or colon) into a word break and
\* removes every other character that is not a letter or a blank without a
\* break, so that letters on either side of a removed character stay in one
\* word: its result is the raw title with hyphens made blanks and the other
\* such characters taken out, trimmed, collapsed and capitalized.
C30_RemovedCharactersJoinWords ==
  \A p \in Procs :
    (req[p].op = "normalize" /\ req[p].pc # "raw")
    => LET rawTitle == COALESCE(req[p].title, <<>>)
           separated == [i \in DOMAIN rawTitle |->
                           IF rawTitle[i] = "-" THEN " " ELSE rawTitle[i]]
           stripped == SelectSeq(separated, IsLetterOrBlank)
       IN req[p].normalized = Some(CapitalizeWords(TrimCollapse(stripped)))


\* ------------------------------------------------------------------ C37
\* C37: whenever getMovieDetailsAndCache returns a record, the record is a
\* cached one younger than the TTL or the call has just written it from the
\* upstream response; a record that was already stale when the call began is
\* never returned, also when the write of the refreshed data failed.
C37_ReturnedRecordIsFresh ==
  [][\A p \in Procs :
       (/\ req[p].op = "refresh" /\ req[p].pc # "done"
        /\ req'[p].op = "refresh" /\ req'[p].pc = "done"
        /\ ReturnedRecord(req'[p]))
       => \/ req'[p].wrote
          \/ req'[p].calledAt - movies[req'[p].movieId].updated_at
               < CACHE_TTL_HOURS]_vars


\* ------------------------------------------------------------------ C36
\* C36: for every title the schemas let through (three characters or more)
\* the key of the service's pre-check, normalizeTitle of the title, equals,
\* case ignored, the key the repository's create computes and the key the
\* trigger's normalize_title stores on the link.
C36_PreCheckKeyIsStoredKey ==
  \A p \in Procs :
    (/\ req[p].op = "normalize" /\ req[p].pc # "raw"
     /\ Len(COALESCE(req[p].title, <<>>)) >= 3)
    => LET rawTitle == COALESCE(req[p].title, <<>>)
           checked == LOWER(COALESCE(req[p].normalized, <<>>))
       IN /\ checked = LOWER(repoEffectiveTitle(rawTitle))
          /\ checked = LOWER(normalize_title(rawTitle))


\* ------------------------------------------------------------------ C31
\* the draft or patch of the request slot p has taken breaks a rule: a title
\* of fewer than 3 characters, a year outside 1888..2100, a runtime below 1,
\* an empty genre or director list
BreaksARule(r) ==
  \/ \E t \in r.title : Len(t) < 3
  \/ \E y \in r.year : y < 1888 \/ y > 2100
  \/ \E m \in r.runtimeMinutes : m < 1
  \/ \E g \in r.genre : g = <<>>
  \/ \E d \in r.director : d = <<>>

\* C31: a createCustomMovie or updateMovie whose draft or patch breaks a rule
\* ends with a validation error in the step in which it is taken, whatever
\* the store holds, and that step changes no movie and no link; no request
\* with such a draft or patch is ever in flight.
C31_InvalidIsRefusedBeforeTheStore ==
  /\ [][\A p \in Procs :
          (/\ started' = started + 1
           /\ req'[p].op \in {"create", "update"}
           /\ req'[p] # req[p]
           /\ BreaksARule(req'[p]))
          => /\ req'[p].pc = "done"
             /\ req'[p].result = "invalid"
             /\ movies' = movies
             /\ user_movies' = user_movies]_vars
  /\ [](\A p \in Procs :
          (req[p].op \in {"create", "update"} /\ BreaksARule(req[p]))
          => req[p].pc = "done" /\ req[p].result = "invalid")

\* an update with a year of 2101 for a movie that exists was refused as
\* invalid, with a movie and a link in the store
C31_Witness ==
  \E p \in Procs :
    /\ req[p].op = "update" /\ req[p].result = "invalid"
    /\ req[p].year = Some(2101)
    /\ req[p].movieId \in DOMAIN movies
    /\ user_movies # {}


\* ------------------------------------------------------------------ C32
\* C32: in every reachable state a user has at most one link to a movie,
\* also after two setFavorite calls of the same user for the same movie that
\* both found no link: the second INSERT is refused.
C32_OneLinkPerUserAndMovie ==
  \A u \in Users, m \in DOMAIN movies :
    Cardinality(findByUserAndMovie(u, m)) <= 1

\* two setFavorite calls of one user for one movie ran at the same time, one
\* with TRUE and one with FALSE; the INSERT of the first made the only link
\* there is, the INSERT of the second was refused
C32_Witness ==
  \E p, q \in Procs :
    /\ p # q /\ concurrent
    /\ req[p].op = "favorite" /\ req[q].op = "favorite"
    /\ req[p].userId = req[q].userId /\ req[p].movieId = req[q].movieId
    /\ req[p].isFavorite # req[q].isFavorite
    /\ req[p].result = "ok" /\ req[q].result = "dberror"
    /\ Cardinality(user_movies) = 1
    /\ \E r \in findByUserAndMovie(req[p].userId, req[p].movieId) :
         r.isFavorite = req[p].isFavorite


\* ------------------------------------------------------------------ C33
\* C33: a step that changes the record of a custom movie is the UPDATE of an
\* updateMovie or deleteMovie call of the movie's owner for that movie; a
\* step that changes the record of an upstream movie is a cache refresh, not
\* a step of any user's request, and leaves it undeleted; an upstream movie
\* is never marked deleted.
C33_OnlyOwnerOrRefreshChangesMovie ==
  /\ [][\A id \in DOMAIN movies :
          movies'[id] # movies[id]
          => IF movies[id].source = "custom"
             THEN \E p \in Procs :
                    /\ req[p].op \in {"update", "delete"}
                    /\ req[p].pc \in {"upd_owner_write", "del_movie"}
                    /\ req[p].userId = movies[id].created_by_user_id
                    /\ req[p].movieId = id
                    /\ req'[p] # req[p]
                    /\ \A q \in Procs \ {p} : req'[q] = req[q]
                    /\ movies'[id].source = "custom"
                    /\ movies'[id].created_by_user_id = movies[id].created_by_user_id
             ELSE /\ req' = req
                  /\ interleaved' = interleaved + 1
                  /\ movies'[id].source = "omdb"
                  /\ movies'[id].omdb_id = movies[id].omdb_id
                  /\ ~movies'[id].is_deleted]_vars
  /\ [](\A id \in DOMAIN movies :
          movies[id].source # "custom" => ~movies[id].is_deleted)

\* a user's updateMovie with a new title for another user's custom movie and
\* a deleteMovie for an upstream movie have both been answered; the custom
\* movie has kept its title and the upstream movie is not deleted
C33_Witness ==
  \E p, q \in Procs :
    /\ req[p].op = "update" /\ req[p].pc = "done"
    /\ req[p].title # NULL
    /\ req[p].movieId \in DOMAIN movies
    /\ movies[req[p].movieId].source = "custom"
    /\ movies[req[p].movieId].created_by_user_id # req[p].userId
    /\ Some(movies[req[p].movieId].title) # req[p].title
    /\ req[q].op = "delete" /\ req[q].pc = "done"
    /\ req[q].movieId \in DOMAIN movies
    /\ movies[req[q].movieId].source = "omdb"
    /\ ~movies[req[q].movieId].is_deleted


\* ------------------------------------------------------------------ C34
\* a link without its update time
Untimed(r) == [r EXCEPT !.updated_at = 0]

\* C34: the UPDATE of a setFavorite call for a link that exists, with no
\* other request in flight since the store was last written, is answered ok,
\* leaves every movie and every other link as it was, and leaves the link as
\* it was but for the favorite flag and the update time: its overrides and
\* its effective normalized title are unchanged.
C34_SetFavoriteChangesOnlyTheFlag ==
  [][\A p \in Procs :
       (/\ ~concurrent
        /\ req[p].op = "favorite" /\ req[p].pc = "sf_update"
        /\ req'[p].pc = "done"
        /\ findByUserAndMovie(req[p].userId, req[p].movieId) # {})
       => /\ req'[p].result = "ok"
          /\ movies' = movies
          /\ {Untimed(r) : r \in user_movies'}
               = {Untimed(IF r.userId = req[p].userId /\ r.movieId = req[p].movieId
                          THEN [r EXCEPT !.isFavorite = req[p].isFavorite]
                          ELSE r) : r \in user_movies}]_vars


\* ------------------------------------------------------------------ C35
\* C35: a deleteMovie call for a movie that exists, that the caller does not
\* own and has no link to, changes no movie and no link when it reads the
\* movie and goes on to the DELETE of the link; the DELETE, finding no link
\* of the caller, changes no movie and no link either, and the call reports
\* not-found.
C35_DeleteOfUnlinkedForeignMovie ==
  [][\A p \in Procs :
       /\ (/\ started' = started + 1
           /\ req'[p] # req[p] /\ req'[p].op = "delete"
           /\ findById(req'[p].movieId) # {}
           /\ ~OwnCustomMovie(movies[req'[p].movieId], req'[p].userId)
           /\ findByUserAndMovie(req'[p].userId, req'[p].movieId) = {})
          => /\ req'[p].pc = "del_link"
             /\ movies' = movies /\ user_movies' = user_movies
       /\ (/\ req[p].op = "delete" /\ req[p].pc = "del_link"
           /\ req'[p] # req[p]
           /\ findByUserAndMovie(req[p].userId, req[p].movieId) = {})
          => /\ req'[p].pc = "done" /\ req'[p].result = "notfound"
             /\ HttpStatus("delete", req'[p].result) = 404
             /\ movies' = movies /\ user_movies' = user_movies]_vars

\* a deleteMovie for another user's custom movie, which the caller has no
\* link to, was answered not-found; the movie is there and undeleted and its
\* owner's link is in the store
C35_Witness ==
  \E p, q \in Procs :
    /\ req[p].op = "delete" /\ req[p].result = "notfound"
    /\ findById(req[p].movieId) # {}
    /\ movies[req[p].movieId].source = "custom"
    /\ movies[req[p].movieId].created_by_user_id # req[p].userId
    /\ findByUserAndMovie(movies[req[p].movieId].created_by_user_id,
                          req[p].movieId) # {}
    /\ req[q].op = "favorite"


\* ------------------------------------------------------------------ C38
\* the link has no override
NoOverrides(r) ==
  /\ r.overridden_title = NULL /\ r.overridden_year = NULL
  /\ r.overridden_runtime_minutes = NULL /\ r.overridden_genre = NULL
  /\ r.overridden_director = NULL

\* the entry of the list shows the fields of the movie's record
ShowsCanonical(e, m) ==
  /\ e.title = m.title /\ e.year = m.year
  /\ e.runtimeMinutes = m.runtime_minutes
  /\ e.genre = m.genre /\ e.director = m.director

\* C38: the DELETE of a deleteMovie call that removes the caller's link to a
\* movie the caller does not own leaves no link of the caller to that movie
\* and no entry for it in the caller's list; the INSERT of a setFavorite
\* call that found no link makes a link with the flag of the call and no
\* overrides, and the caller's list then shows the fields of the movie's
\* record for it.
C38_DetachedLinkComesBackFresh ==
  [][\A p \in Procs :
       LET u == req[p].userId
           m == req[p].movieId
           list == getUserMovies(u, FALSE)'
           links == findByUserAndMovie(u, m)'
       IN /\ (/\ req[p].op = "delete" /\ req[p].pc = "del_link"
              /\ req'[p].pc = "done" /\ req'[p].result = "ok")
             => /\ links = {}
                /\ \A i \in DOMAIN list : list[i].id # m
          /\ (/\ req[p].op = "favorite" /\ req[p].pc = "sf_insert"
              /\ req'[p].pc = "done" /\ req'[p].result = "ok")
             => /\ Cardinality(links) = 1
                /\ \A r \in links :
                     NoOverrides(r) /\ r.isFavorite = req[p].isFavorite
                /\ \A i \in DOMAIN list :
                     list[i].id = m
                     => /\ ShowsCanonical(list[i], movies'[m])
                        /\ list[i].isFavorite = req[p].isFavorite
                /\ findById(m)' # {} => \E i \in DOMAIN list : list[i].id = m]_vars

\* every link began with a title and a year of the user's own and the
\* favorite flag set, and only a DELETE takes a link away: a user has
\* deleted the movie and a later setFavorite of theirs with FALSE, with no
\* other request in flight, was answered ok; their link has no overrides and
\* no flag, their list shows the movie's own title and year, and the other
\* user's link still has its overrides
C38_Witness ==
  \E q \in Procs :
    /\ ~concurrent
    /\ req[q].op = "favorite" /\ req[q].result = "ok"
    /\ req[q].isFavorite = FALSE
    /\ \E r \in findByUserAndMovie(req[q].userId, req[q].movieId) :
         NoOverrides(r) /\ r.isFavorite = FALSE
    /\ \E i \in DOMAIN getUserMovies(req[q].userId, FALSE) :
         LET e == getUserMovies(req[q].userId, FALSE)[i]
         IN /\ e.id = req[q].movieId /\ ~e.isFavorite
            /\ e.title = T_abc /\ e.year = Some(1999)
    /\ \E r \in user_movies :
         r.userId # req[q].userId /\ r.overridden_title = Some(T_xyz)

====
